---- MODULE Spec2Model ----
(***************************************************************************)
(* Prompt-compilation pipeline of chat-cf: the CBS macro processor, the    *)
(* lorebook engine, the Jinja template renderer and the PromptBuilder that *)
(* orchestrates them.                                                      *)
(*                                                                         *)
(* A text is a sequence of lexemes.  The macro delimiters "{{" and "}}",   *)
(* the macro heads ("char", "hidden_key:", "//", ...) and every word are   *)
(* lexemes of their own, so that the regular expressions of the macro      *)
(* processor are matched against the text as the code matches them, and a  *)
(* malformed macro (an unmatched delimiter) is a text like any other.      *)
(***************************************************************************)
EXTENDS Integers, Sequences, FiniteSets, TLC

(***************************************************************************)
(* Bounds of the model.                                                    *)
(***************************************************************************)
MaxHistory == 2

MaxEntries == 2

(***************************************************************************)
(* Text helpers.                                                           *)
(***************************************************************************)
RECURSIVE Flatten(_)
Flatten(ss) == IF ss = <<>> THEN <<>> ELSE Head(ss) \o Flatten(Tail(ss))

RECURSIVE JoinWith(_, _)
JoinWith(ss, sep) ==
    IF ss = <<>> THEN <<>>
    ELSE IF Len(ss) = 1 THEN Head(ss)
    ELSE Head(ss) \o sep \o JoinWith(Tail(ss), sep)

RECURSIVE ReverseSeq(_)
ReverseSeq(s) == IF s = <<>> THEN <<>> ELSE ReverseSeq(Tail(s)) \o <<Head(s)>>

\* String.prototype.includes on texts: needle occurs as a contiguous run.
Contains(hay, needle) ==
    \E i \in 1..(Len(hay) - Len(needle) + 1) :
        SubSeq(hay, i, i + Len(needle) - 1) = needle

\* The UTF-16 code units of a lexeme (String.prototype.charCodeAt).
CharCodes(x) ==
    IF x = "{{" THEN <<123, 123>> ELSE
    IF x = "}}" THEN <<125, 125>> ELSE
    IF x = "char" THEN <<99, 104, 97, 114>> ELSE
    IF x = "user" THEN <<117, 115, 101, 114>> ELSE
    IF x = "hidden_key:" THEN <<104, 105, 100, 100, 101, 110, 95, 107, 101, 121, 58>> ELSE
    IF x = "//" THEN <<47, 47>> ELSE
    IF x = "random:" THEN <<114, 97, 110, 100, 111, 109, 58>> ELSE
    IF x = "pick:" THEN <<112, 105, 99, 107, 58>> ELSE
    IF x = "roll:" THEN <<114, 111, 108, 108, 58>> ELSE
    IF x = "reverse:" THEN <<114, 101, 118, 101, 114, 115, 101, 58>> ELSE
    IF x = "d" THEN <<100>> ELSE
    IF x = "," THEN <<44>> ELSE
    IF x = "dragon" THEN <<100, 114, 97, 103, 111, 110>> ELSE
    IF x = "hi" THEN <<104, 105>> ELSE
    IF x = "helps" THEN <<104, 101, 108, 112, 115>> ELSE
    IF x = "be" THEN <<98, 101>> ELSE
    IF x = "note" THEN <<110, 111, 116, 101>> ELSE
    IF x = "lore" THEN <<108, 111, 114, 101>> ELSE
    IF x = "ok" THEN <<111, 107>> ELSE
    IF x = "Aria" THEN <<65, 114, 105, 97>> ELSE
    IF x = "Ari" THEN <<65, 114, 105>> ELSE
    IF x = "Sam" THEN <<83, 97, 109>> ELSE
    IF x = "a" THEN <<97>> ELSE
    IF x = "b" THEN <<98>> ELSE
    IF x = "0" THEN <<48>> ELSE
    IF x = "1" THEN <<49>> ELSE
    IF x = "2" THEN <<50>> ELSE
    IF x = "3" THEN <<51>> ELSE
    IF x = "c1" THEN <<99, 49>> ELSE
    IF x = "c2" THEN <<99, 50>> ELSE
    IF x = " " THEN <<32>> ELSE
    IF x = "}" THEN <<125>> ELSE
    IF x = "$" THEN <<36>> ELSE
    IF x = "$$" THEN <<36, 36>> ELSE
    IF x = "$&" THEN <<36, 38>> ELSE
    IF x = "$`" THEN <<36, 96>> ELSE
    IF x = "$'" THEN <<36, 39>> ELSE
    IF x = "ih" THEN <<105, 104>> ELSE
    IF x = "Ca" THEN <<67, 97>> ELSE
    IF x = "h" THEN <<104>> ELSE
    IF x = "foo" THEN <<102, 111, 111>> ELSE
    <<>>

(***************************************************************************)
(* CBS macro processor (src/services/cbs-processor.ts).                    *)
(*                                                                         *)
(* A CBS context is a record [charName, userName, conversationId, rnd];    *)
(* conversationId is the empty text when the caller gives none, and rnd    *)
(* stands for the value Math.random() yields during the call.              *)
(***************************************************************************)
Digits == <<"0", "1", "2", "3", "4", "5", "6", "7", "8", "9">>

IsDigit(x) == \E i \in 1..10 : Digits[i] = x

DigitVal(x) == (CHOOSE i \in 1..10 : Digits[i] = x) - 1

\* parseInt(max, 10) of a run of digit lexemes.
RECURSIVE ParseInt(_, _)
ParseInt(ds, acc) ==
    IF ds = <<>> THEN acc ELSE ParseInt(Tail(ds), acc * 10 + DigitVal(Head(ds)))

\* Number.prototype.toString of a natural number, one lexeme per digit.
RECURSIVE NumToText(_)
NumToText(n) ==
    IF n < 10 THEN <<Digits[n + 1]>>
    ELSE NumToText(n \div 10) \o <<Digits[(n % 10) + 1]>>

\* Length of the longest run of lexemes from position i that hold no "}":
\* what [^}]* consumes.
RECURSIVE RunNotClose(_, _)
RunNotClose(t, i) ==
    IF i > Len(t) \/ t[i] \in {"}}", "}"} THEN 0 ELSE 1 + RunNotClose(t, i + 1)

RECURSIVE RunDigits(_, _)
RunDigits(t, i) ==
    IF i > Len(t) \/ ~IsDigit(t[i]) THEN 0 ELSE 1 + RunDigits(t, i + 1)

\* The macro heads and the least number of body lexemes their regex asks for.
MacroHead(kind) ==
    CASE kind = "char" -> "char"
      [] kind = "user" -> "user"
      [] kind = "comment" -> "//"
      [] kind = "hidden_key" -> "hidden_key:"
      [] kind = "random" -> "random:"
      [] kind = "pick" -> "pick:"
      [] kind = "roll" -> "roll:"
      [] kind = "reverse" -> "reverse:"

\* A matcher for which {{char and {{user need no closing delimiter.
MatchLenUnclosed(t, i, kind) ==
    IF ~(i + 1 <= Len(t) /\ t[i] = "{{" /\ t[i + 1] = MacroHead(kind)) THEN 0
    ELSE IF kind \in {"char", "user"} THEN 2
    ELSE IF kind = "roll" THEN
        LET s == IF i + 2 <= Len(t) /\ t[i + 2] = "d" THEN i + 3 ELSE i + 2
            n == RunDigits(t, s)
        IN  IF n >= 1 /\ s + n <= Len(t) /\ t[s + n] = "}}"
            THEN s + n + 1 - i ELSE 0
    ELSE
        LET n == RunNotClose(t, i + 2)
            lo == IF kind = "comment" THEN 0 ELSE 1
        IN  IF n >= lo /\ i + 2 + n <= Len(t) /\ t[i + 2 + n] = "}}"
            THEN n + 3 ELSE 0

\* Number of lexemes the regex of `kind` matches at position i, 0 if none.
MatchLen(t, i, kind) ==
    IF ~(i + 1 <= Len(t) /\ t[i] = "{{" /\ t[i + 1] = MacroHead(kind)) THEN 0
    ELSE IF kind \in {"char", "user"} THEN
        IF i + 2 <= Len(t) /\ t[i + 2] = "}}" THEN 3 ELSE 0
    ELSE IF kind = "roll" THEN
        LET s == IF i + 2 <= Len(t) /\ t[i + 2] = "d" THEN i + 3 ELSE i + 2
            n == RunDigits(t, s)
        IN  IF n >= 1 /\ s + n <= Len(t) /\ t[s + n] = "}}"
            THEN s + n + 1 - i ELSE 0
    ELSE
        LET n == RunNotClose(t, i + 2)
            lo == IF kind = "comment" THEN 0 ELSE 1
        IN  IF n >= lo /\ i + 2 + n <= Len(t) /\ t[i + 2 + n] = "}}"
            THEN n + 3 ELSE 0

\* options.split(','): the runs between "," lexemes (never an empty list).
RECURSIVE SplitComma(_, _)
SplitComma(body, cur) ==
    IF body = <<>> THEN <<cur>>
    ELSE IF Head(body) = "," THEN <<cur>> \o SplitComma(Tail(body), <<>>)
    ELSE SplitComma(Tail(body), Append(cur, Head(body)))

\* One step of simpleHash on a 32-bit value kept as two 16-bit limbs:
\* hash = ((hash << 5) - hash) + char; hash = hash & hash.
HashStep(h, c) ==
    LET lo == h[2] * 31 + c
        hi == h[1] * 31 + (lo \div 65536)
    IN  <<hi % 65536, lo % 65536>>

RECURSIVE HashCodes(_, _)
HashCodes(cs, h) ==
    IF cs = <<>> THEN h ELSE HashCodes(Tail(cs), HashStep(h, Head(cs)))

simpleHash(str) == HashCodes(Flatten([i \in 1..Len(str) |-> CharCodes(str[i])]), <<0, 0>>)

\* Math.abs(hash) % n for the signed 32-bit value of the limbs.
AbsHashMod(h, n) ==
    IF h[1] < 32768 THEN (h[1] * 65536 + h[2]) % n
    ELSE (((((65536 - h[1]) % n) * (65536 % n)) % n) + n - (h[2] % n)) % n

\* String.prototype.trim of an option: the blanks at its ends go.
RECURSIVE TrimStart(_)
TrimStart(t) == IF t # <<>> /\ Head(t) = " " THEN TrimStart(Tail(t)) ELSE t

Trim(t) == ReverseSeq(TrimStart(ReverseSeq(TrimStart(t))))

\* options.split(',').map(s => s.trim())
Choices(body) ==
    LET parts == SplitComma(body, <<>>)
    IN  [k \in 1..Len(parts) |-> Trim(parts[k])]

\* Math.random() yields rnd / RndDenominator, a value of [0, 1).
RndDenominator == 2

\* Math.floor(Math.random() * n)
RandomBelow(rnd, n) == (rnd * n) \div RndDenominator

\* The characters of a lexeme in reverse order.
ReverseLexeme(x) ==
    CASE x = "hi" -> "ih"
      [] x = "ih" -> "hi"
      [] x = "ok" -> "ko"
      [] x = "be" -> "eb"
      [] x = "Sam" -> "maS"
      [] x = "Ari" -> "irA"
      [] x = "{{" -> "{{"
      [] x = "//" -> "//"
      [] x = "char" -> "rahc"
      [] x = "user" -> "resu"
      [] x = "reverse:" -> ":esrever"
      [] x \in {"a", "b", "d", ",", " ", "$", "0", "1", "2", "3"} -> x

\* content.split('').reverse().join('')
ReverseText(t) == ReverseSeq([k \in 1..Len(t) |-> ReverseLexeme(t[k])])

\* A replacement given as a string: "$$" stands for a "$", "$&" for the
\* match, "$`" for the text before it and "$'" for the text after it
\* (String.prototype.replace); the patterns have no capture groups.
RECURSIVE ExpandPatterns(_, _, _, _)
ExpandPatterns(replacement, t, i, n) ==
    IF replacement = <<>> THEN <<>>
    ELSE (CASE Head(replacement) = "$$" -> <<"$">>
            [] Head(replacement) = "$&" -> SubSeq(t, i, i + n - 1)
            [] Head(replacement) = "$`" -> SubSeq(t, 1, i - 1)
            [] Head(replacement) = "$'" -> SubSeq(t, i + n, Len(t))
            [] OTHER -> <<Head(replacement)>>)
         \o ExpandPatterns(Tail(replacement), t, i, n)

\* A replacement callback whose pick draws at random, like random.
ReplacementPickAtRandom(kind, m, ctx) ==
    LET hasD == kind = "roll" /\ m[3] = "d"
        body == SubSeq(m, IF hasD THEN 4 ELSE 3, Len(m) - 1)
    IN  CASE kind = "comment" -> <<>>
          [] kind = "hidden_key" -> <<>>
          [] kind = "random" -> Choices(body)[RandomBelow(ctx.rnd, Len(Choices(body))) + 1]
          [] kind = "pick" -> Choices(body)[RandomBelow(ctx.rnd, Len(Choices(body))) + 1]
          [] kind = "roll" ->
                IF ParseInt(body, 0) < 1 THEN m
                ELSE NumToText(RandomBelow(ctx.rnd, ParseInt(body, 0)) + 1)
          [] kind = "reverse" -> ReverseText(body)

\* A replacement callback whose roll counts from 0.
ReplacementRollFromZero(kind, m, ctx) ==
    LET hasD == kind = "roll" /\ m[3] = "d"
        body == SubSeq(m, IF hasD THEN 4 ELSE 3, Len(m) - 1)
    IN  CASE kind = "comment" -> <<>>
          [] kind = "hidden_key" -> <<>>
          [] kind = "random" -> Choices(body)[RandomBelow(ctx.rnd, Len(Choices(body))) + 1]
          [] kind = "pick" ->
                Choices(body)[AbsHashMod(simpleHash(ctx.conversationId \o m),
                                         Len(Choices(body))) + 1]
          [] kind = "roll" ->
                IF ParseInt(body, 0) < 1 THEN m
                ELSE NumToText(RandomBelow(ctx.rnd, ParseInt(body, 0)))
          [] kind = "reverse" -> ReverseText(body)

\* What the replacement callback of `kind` returns for the matched lexemes m.
Replacement(kind, m, ctx) ==
    LET hasD == kind = "roll" /\ m[3] = "d"
        body == SubSeq(m, IF hasD THEN 4 ELSE 3, Len(m) - 1)
    IN  CASE kind = "comment" -> <<>>
          [] kind = "hidden_key" -> <<>>
          [] kind = "random" -> Choices(body)[RandomBelow(ctx.rnd, Len(Choices(body))) + 1]
          [] kind = "pick" ->
                Choices(body)[AbsHashMod(simpleHash(ctx.conversationId \o m),
                                         Len(Choices(body))) + 1]
          [] kind = "roll" ->
                IF ParseInt(body, 0) < 1 THEN m
                ELSE NumToText(RandomBelow(ctx.rnd, ParseInt(body, 0)) + 1)
          [] kind = "reverse" -> ReverseText(body)

\* text.replace(/regex of kind/g, callback): leftmost matches, left to right,
\* the replacement text is not scanned again.
RECURSIVE ReplaceAll(_, _, _, _)
ReplaceAll(t, i, kind, ctx) ==
    IF i > Len(t) THEN <<>>
    ELSE LET n == MatchLen(t, i, kind)
         IN  IF n > 0
             THEN (CASE kind = "char" -> ExpandPatterns(ctx.charName, t, i, n)
                     [] kind = "user" -> ExpandPatterns(ctx.userName, t, i, n)
                     [] OTHER -> Replacement(kind, SubSeq(t, i, i + n - 1), ctx))
                      \o ReplaceAll(t, i + n, kind, ctx)
             ELSE <<t[i]>> \o ReplaceAll(t, i + 1, kind, ctx)

removeHiddenKeys(text, ctx) == ReplaceAll(text, 1, "hidden_key", ctx)

removeComments(text, ctx) == ReplaceAll(text, 1, "comment", ctx)

replaceChar(text, ctx) == ReplaceAll(text, 1, "char", ctx)

replaceUser(text, ctx) == ReplaceAll(text, 1, "user", ctx)

replaceRandom(text, ctx) == ReplaceAll(text, 1, "random", ctx)

replacePick(text, ctx) == ReplaceAll(text, 1, "pick", ctx)

replaceRoll(text, ctx) == ReplaceAll(text, 1, "roll", ctx)

replaceReverse(text, ctx) == ReplaceAll(text, 1, "reverse", ctx)

\* The passes of process in the order of its assignments to `result`.
Passes ==
    <<"hidden_key", "comment", "char", "user", "random", "pick", "roll", "reverse">>

\* The value of `result` after each of the passes from pass k on.
RECURSIVE ResultsFrom(_, _, _)
ResultsFrom(t, k, ctx) ==
    IF k > Len(Passes) THEN <<>>
    ELSE LET Then(out) == <<out>> \o ResultsFrom(out, k + 1, ctx)
         IN  Then(ReplaceAll(t, 1, Passes[k], ctx))

\* A processor that replaces {{user}} before {{char}}.
processUserFirst(text, ctx) ==
    replaceReverse(replaceRoll(replacePick(replaceRandom(replaceChar(replaceUser(
        removeComments(removeHiddenKeys(text, ctx), ctx), ctx), ctx), ctx), ctx), ctx), ctx)

process(text, ctx) ==
    replaceReverse(replaceRoll(replacePick(replaceRandom(replaceUser(replaceChar(
        removeComments(removeHiddenKeys(text, ctx), ctx), ctx), ctx), ctx), ctx), ctx), ctx)

\* The inner texts of the {{hidden_key:...}} markers, in order of appearance.
RECURSIVE HiddenKeysFrom(_, _)
HiddenKeysFrom(t, i) ==
    IF i > Len(t) THEN <<>>
    ELSE LET n == MatchLen(t, i, "hidden_key")
         IN  IF n > 0
             THEN <<SubSeq(t, i + 2, i + n - 2)>> \o HiddenKeysFrom(t, i + n)
             ELSE HiddenKeysFrom(t, i + 1)

\* An extraction that stops at the first marker.
extractHiddenKeysFirstOnly(text) ==
    IF HiddenKeysFrom(text, 1) = <<>> THEN <<>> ELSE <<Head(HiddenKeysFrom(text, 1))>>

extractHiddenKeys(text) == HiddenKeysFrom(text, 1)

(***************************************************************************)
(* Lorebook engine (src/services/lorebook-engine.ts).                      *)
(*                                                                         *)
(* An entry is a record [id, keys, content, enabled, constant,             *)
(* case_sensitive, hasPriority, priority, insertion_order]; content is the *)
(* sequence of its lines, each a text, and a decorator line starts with a  *)
(* "@@name" lexeme followed by the lexemes of its value.  hasPriority is   *)
(* FALSE for an entry that has no priority field.  Keys are literal        *)
(* (use_regex = false).                                                    *)
(***************************************************************************)
DecoratorNames ==
    {"@@depth", "@@role", "@@activate_only_after", "@@activate_only_every",
     "@@position", "@@scan_depth", "@@additional_keys", "@@exclude_keys",
     "@@activate", "@@dont_activate"}

\* A line of the form "@@name [value]"; "@@unknown" is one no rule recognizes.
IsDecoratorLine(line) ==
    line # <<>> /\ Head(line) \in DecoratorNames \cup {"@@unknown"}

RECURSIVE DecoratorBlockLen(_)
DecoratorBlockLen(lines) ==
    IF lines # <<>> /\ IsDecoratorLine(Head(lines))
    THEN 1 + DecoratorBlockLen(Tail(lines)) ELSE 0

\* The values of the decorator lines called `name`, in order.
RECURSIVE DecoValues(_, _)
DecoValues(lines, name) ==
    IF lines = <<>> THEN <<>>
    ELSE (IF Head(Head(lines)) = name THEN <<Tail(Head(lines))>> ELSE <<>>)
             \o DecoValues(Tail(lines), name)

\* A numeric decorator: <<>> when absent or not a number, <<n>> otherwise.
NumDeco(lines, name) ==
    LET vs == DecoValues(lines, name)
    IN  IF vs # <<>> /\ Head(vs) # <<>> /\ \A i \in 1..Len(Head(vs)) : IsDigit(Head(vs)[i])
        THEN <<ParseInt(Head(vs), 0)>> ELSE <<>>

\* A word decorator: "" when absent.
WordDeco(lines, name) ==
    LET vs == DecoValues(lines, name)
    IN  IF vs # <<>> /\ Head(vs) # <<>> THEN Head(Head(vs)) ELSE ""

\* A key-list decorator: every value lexeme is one key.
KeysDeco(lines, name) ==
    LET all == Flatten(DecoValues(lines, name))
    IN  [i \in 1..Len(all) |-> <<all[i]>>]

parseDecorators(content) ==
    LET n == DecoratorBlockLen(content)
        block == SubSeq(content, 1, n)
    IN  [decorators |->
            [depth |-> NumDeco(block, "@@depth"),
             role |-> WordDeco(block, "@@role"),
             activate_only_after |-> NumDeco(block, "@@activate_only_after"),
             activate_only_every |-> NumDeco(block, "@@activate_only_every"),
             position |-> WordDeco(block, "@@position"),
             scan_depth |-> NumDeco(block, "@@scan_depth"),
             additional_keys |-> KeysDeco(block, "@@additional_keys"),
             exclude_keys |-> KeysDeco(block, "@@exclude_keys"),
             activate |-> DecoValues(block, "@@activate") # <<>>,
             dont_activate |-> DecoValues(block, "@@dont_activate") # <<>>],
         cleanContent |-> JoinWith(SubSeq(content, n + 1, Len(content)), <<"\n">>)]

\* String.prototype.toLowerCase, lexeme by lexeme.
LowerLexeme(x) == IF x \in {"Dragon", "DRAGON"} THEN "dragon" ELSE x

Lower(t) == [i \in 1..Len(t) |-> LowerLexeme(t[i])]

\* A search that takes the empty key for a key like any other.
KeyOccursEmpty(key, scanText, caseSensitive) ==
    IF caseSensitive THEN Contains(scanText, key)
    ELSE Contains(Lower(scanText), Lower(key))

KeyOccurs(key, scanText, caseSensitive) ==
    /\ key # <<>>
    /\ IF caseSensitive THEN Contains(scanText, key)
       ELSE Contains(Lower(scanText), Lower(key))

\* A matcher that scans the whole scan text for every entry.
EntryScanTextFull(decorators, context) == context.scanText

\* The text an entry is matched against: the whole scan text, or the content
\* of the N most recent messages under @@scan_depth N.
EntryScanText(decorators, context) ==
    IF decorators.scan_depth = <<>> THEN context.scanText
    ELSE LET n == Len(context.messages)
             k == IF decorators.scan_depth[1] < n THEN decorators.scan_depth[1] ELSE n
         IN  Flatten([i \in 1..k |-> context.messages[n - k + i].content])

matchesKeys(entry, decorators, scanText) ==
    \E i \in 1..(Len(entry.keys) + Len(decorators.additional_keys)) :
        KeyOccurs((entry.keys \o decorators.additional_keys)[i], scanText,
                  entry.case_sensitive)

\* Conditions under which @@activate_only_every N also passes at count 0.
meetsDecoratorConditionsAtZero(decorators, context) ==
    LET count == context.assistantMessageCount
    IN  /\ ~decorators.dont_activate
        /\ decorators.activate_only_after # <<>>
               => count >= decorators.activate_only_after[1]
        /\ decorators.activate_only_every # <<>>
               => LET n == decorators.activate_only_every[1]
                  IN  (n > 0 /\ count % n = 0) \/ count = n

meetsDecoratorConditions(decorators, context) ==
    LET count == context.assistantMessageCount
    IN  /\ ~decorators.dont_activate
        /\ decorators.activate_only_after # <<>>
               => count >= decorators.activate_only_after[1]
        /\ decorators.activate_only_every # <<>>
               => LET n == decorators.activate_only_every[1]
                  IN  (n > 0 /\ count > 0 /\ count % n = 0) \/ count = n

\* A matcher in which @@activate also forces a disabled entry in.
EntryActiveForced(entry, context) ==
    LET Active(d) ==
            LET scan == EntryScanText(d, context)
            IN  /\ entry.enabled \/ d.activate
                /\ entry.constant \/ d.activate \/ matchesKeys(entry, d, scan)
                /\ ~\E i \in 1..Len(d.exclude_keys) :
                        KeyOccurs(d.exclude_keys[i], scan, entry.case_sensitive)
                /\ meetsDecoratorConditions(d, context)
    IN  Active(parseDecorators(entry.content).decorators)

\* A matcher in which @@activate also passes over the @@exclude_keys veto.
EntryActiveActivateWins(entry, context) ==
    LET Active(d) ==
            LET scan == EntryScanText(d, context)
            IN  /\ entry.enabled
                /\ \/ d.activate
                   \/ /\ entry.constant \/ matchesKeys(entry, d, scan)
                      /\ ~\E i \in 1..Len(d.exclude_keys) :
                              KeyOccurs(d.exclude_keys[i], scan, entry.case_sensitive)
                /\ meetsDecoratorConditions(d, context)
    IN  Active(parseDecorators(entry.content).decorators)

\* Whether an entry is part of the result of findMatches.
EntryActive(entry, context) ==
    LET Active(d) ==
            LET scan == EntryScanText(d, context)
            IN  /\ entry.enabled
                /\ entry.constant \/ d.activate \/ matchesKeys(entry, d, scan)
                /\ ~\E i \in 1..Len(d.exclude_keys) :
                        KeyOccurs(d.exclude_keys[i], scan, entry.case_sensitive)
                /\ meetsDecoratorConditions(d, context)
    IN  Active(parseDecorators(entry.content).decorators)

PriorityOf(entry) == IF entry.hasPriority THEN entry.priority ELSE 0

\* The comparator of sortEntries: TRUE when a must come before b.
SortsBefore(a, b) ==
    \/ PriorityOf(a.entry) > PriorityOf(b.entry)
    \/ /\ PriorityOf(a.entry) = PriorityOf(b.entry)
       /\ a.entry.insertion_order < b.entry.insertion_order

\* Array.prototype.sort is stable: m goes behind everything it does not
\* sort before.
RECURSIVE InsertSorted(_, _)
InsertSorted(sorted, m) ==
    IF sorted = <<>> THEN <<m>>
    ELSE IF SortsBefore(m, Head(sorted)) THEN <<m>> \o sorted
    ELSE <<Head(sorted)>> \o InsertSorted(Tail(sorted), m)

RECURSIVE SortFrom(_, _)
SortFrom(ms, acc) ==
    IF ms = <<>> THEN acc ELSE SortFrom(Tail(ms), InsertSorted(acc, Head(ms)))

\* A matcher that returns the matches in lorebook order.
sortEntriesNot(ms) == ms

sortEntries(ms) == SortFrom(ms, <<>>)

RECURSIVE MatchEach(_, _)
MatchEach(entries, context) ==
    IF entries = <<>> THEN <<>>
    ELSE LET e == Head(entries)
             Matched(p) == [entry |-> e, decorators |-> p.decorators,
                            processedContent |-> p.cleanContent]
         IN  (IF EntryActive(e, context)
              THEN <<Matched(parseDecorators(e.content))>>
              ELSE <<>>) \o MatchEach(Tail(entries), context)

findMatches(lorebook, context) == sortEntries(MatchEach(lorebook.entries, context))

(***************************************************************************)
(* Template renderer (src/services/template-renderer.ts).                  *)
(*                                                                         *)
(* A template source is known by what it is: the three built-in sources,   *)
(* "custom" (a caller's template that prints the persona's name and the    *)
(* messages), "faulty" (parses, but its evaluation throws) and "broken"    *)
(* (does not parse).  A registry is a function from the registered names   *)
(* to the sources compiled under them.                                     *)
(***************************************************************************)
TemplateSources == {"chatml", "alpaca", "llama", "custom", "faulty", "broken"}

\* new Template(source) throws on a source that does not parse.
Compiles(source) == source # "broken"

Truthy(text) == text # <<>>

RECURSIVE EachEntry(_, _)
EachEntry(entries, kind) ==
    IF entries = <<>> THEN <<>>
    ELSE LET e == Head(entries)
             role == e.decorators.role
             body == e.processedContent
         IN  (CASE kind = "chatml" ->
                      (IF role = "assistant" THEN <<"<|im_start|>assistant\n">>
                       ELSE IF role = "user" THEN <<"<|im_start|>user\n">>
                       ELSE <<"<|im_start|>system\n">>) \o body \o <<"<|im_end|>\n">>
                [] kind = "alpaca" -> body \o <<"\n\n">>
                [] kind = "llama" ->
                      <<"[INST] <<SYS>>\n">> \o body \o <<"\n<</SYS>>\n\n">>
                [] OTHER -> <<>>)
             \o EachEntry(Tail(entries), kind)

RECURSIVE EachMessage(_, _)
EachMessage(msgs, kind) ==
    IF msgs = <<>> THEN <<>>
    ELSE LET m == Head(msgs)
         IN  (CASE kind = "chatml" ->
                      (IF m.role = "assistant" THEN <<"<|im_start|>assistant\n">>
                       ELSE <<"<|im_start|>user\n">>) \o m.content \o <<"<|im_end|>\n">>
                [] kind = "alpaca" ->
                      (IF m.role = "user" THEN <<"### Instruction:\n">>
                       ELSE <<"### Response:\n">>) \o m.content \o <<"\n\n">>
                [] kind = "llama" ->
                      IF m.role = "user"
                      THEN <<"[INST] ">> \o m.content \o <<" [/INST]\n">>
                      ELSE m.content \o <<" </s>\n">>
                [] OTHER ->
                      (IF m.role = "user" THEN <<"USER: ">> ELSE <<"BOT: ">>)
                          \o m.content \o <<"\n">>)
             \o EachMessage(Tail(msgs), kind)

\* One conditional section of a built-in template.
Section(kind, text, open, label, close) ==
    IF Truthy(text) THEN open \o label \o text \o close ELSE <<>>

\* The default template without its description block.
chatMLTemplateNoDescription(v) ==
    Section("chatml", v.system_prompt, <<"<|im_start|>system\n">>, <<>>, <<"<|im_end|>\n">>)
    \o Section("chatml", v.character.personality, <<"<|im_start|>system\n">>,
               <<"Personality: ">>, <<"<|im_end|>\n">>)
    \o Section("chatml", v.character.scenario, <<"<|im_start|>system\n">>,
               <<"Scenario: ">>, <<"<|im_end|>\n">>)
    \o EachEntry(v.lorebook_entries, "chatml")
    \o EachMessage(v.messages, "chatml")
    \o <<"<|im_start|>assistant\n">>

chatMLTemplate(v) ==
    Section("chatml", v.system_prompt, <<"<|im_start|>system\n">>, <<>>, <<"<|im_end|>\n">>)
    \o Section("chatml", v.character.description, <<"<|im_start|>system\n">>, <<>>,
               <<"<|im_end|>\n">>)
    \o Section("chatml", v.character.personality, <<"<|im_start|>system\n">>,
               <<"Personality: ">>, <<"<|im_end|>\n">>)
    \o Section("chatml", v.character.scenario, <<"<|im_start|>system\n">>,
               <<"Scenario: ">>, <<"<|im_end|>\n">>)
    \o EachEntry(v.lorebook_entries, "chatml")
    \o EachMessage(v.messages, "chatml")
    \o <<"<|im_start|>assistant\n">>

alpacaTemplate(v) ==
    Section("alpaca", v.system_prompt, <<>>, <<>>, <<"\n\n">>)
    \o Section("alpaca", v.character.description, <<>>, <<>>, <<"\n\n">>)
    \o Section("alpaca", v.character.personality, <<>>, <<"Personality: ">>, <<"\n\n">>)
    \o Section("alpaca", v.character.scenario, <<>>, <<"Scenario: ">>, <<"\n\n">>)
    \o EachEntry(v.lorebook_entries, "alpaca")
    \o EachMessage(v.messages, "alpaca")
    \o <<"### Response:\n">>

llamaTemplate(v) ==
    Section("llama", v.system_prompt, <<"<s>[INST] <<SYS>>\n">>, <<>>, <<"\n<</SYS>>\n\n">>)
    \o Section("llama", v.character.description, <<"[INST] <<SYS>>\n">>, <<>>,
               <<"\n<</SYS>>\n\n">>)
    \o Section("llama", v.character.personality, <<"[INST] <<SYS>>\n">>,
               <<"Personality: ">>, <<"\n<</SYS>>\n\n">>)
    \o Section("llama", v.character.scenario, <<"[INST] <<SYS>>\n">>,
               <<"Scenario: ">>, <<"\n<</SYS>>\n\n">>)
    \o EachEntry(v.lorebook_entries, "llama")
    \o EachMessage(v.messages, "llama")

\* template.render(templateVars) of a compiled source.
Evaluate(source, v) ==
    CASE source = "chatml" -> chatMLTemplate(v)
      [] source = "alpaca" -> alpacaTemplate(v)
      [] source = "llama" -> llamaTemplate(v)
      [] OTHER -> <<"CARD: ">> \o v.character.name \o <<"\n">>
                      \o EachMessage(v.messages, "custom")

\* The registry the constructor leaves behind.
initializeDefaultTemplates ==
    [n \in {"chatml", "default", "alpaca", "llama"} |->
        IF n = "default" THEN "chatml" ELSE n]

\* What a call of the renderer or the builder gives back: a prompt, or the
\* error it throws (error names the kind, errorName the offending name).
Thrown(kind, name) ==
    [ok |-> FALSE, error |-> kind, errorName |-> name, prompt |-> <<>>]

Returned(prompt) ==
    [ok |-> TRUE, error |-> "", errorName |-> "", prompt |-> prompt]

\* Template variables in which the persona's system prompt comes first.
TemplateVarsPersonaFirst(context) ==
    [character |-> context.character,
     messages |-> context.messages,
     user_name |-> context.userName,
     lorebook_entries |-> context.lorebookEntries,
     system_prompt |-> IF Truthy(context.character.system_prompt)
                       THEN context.character.system_prompt
                       ELSE context.systemPrompt]

TemplateVars(context) ==
    [character |-> context.character,
     messages |-> context.messages,
     user_name |-> context.userName,
     lorebook_entries |-> context.lorebookEntries,
     system_prompt |-> IF Truthy(context.systemPrompt) THEN context.systemPrompt
                       ELSE context.character.system_prompt]

\* A renderer that falls back to the default template for an unknown name.
renderWithFallback(registry, templateName, context) ==
    LET name == IF templateName \in DOMAIN registry THEN templateName ELSE "default"
    IN  IF registry[name] = "faulty"
        THEN Thrown("Template rendering failed", name)
        ELSE Returned(Evaluate(registry[name], TemplateVars(context)))

render(registry, templateName, context) ==
    IF templateName \notin DOMAIN registry
    THEN Thrown("Template not found", templateName)
    ELSE IF registry[templateName] = "faulty"
    THEN Thrown("Template rendering failed", templateName)
    ELSE Returned(Evaluate(registry[templateName], TemplateVars(context)))

\* A registerTemplate that drops the old template before it compiles the new.
registerTemplateDropFirst(registry, name, templateString) ==
    IF Compiles(templateString)
    THEN [registry |-> [n \in DOMAIN registry \cup {name} |->
                           IF n = name THEN templateString ELSE registry[n]],
          ok |-> TRUE, error |-> "", errorName |-> ""]
    ELSE [registry |-> [n \in DOMAIN registry \ {name} |-> registry[n]],
          ok |-> FALSE, error |-> "Failed to register template", errorName |-> name]

\* registerTemplate gives the registry it leaves and the error it throws.
registerTemplate(registry, name, templateString) ==
    IF Compiles(templateString)
    THEN [registry |-> [n \in DOMAIN registry \cup {name} |->
                           IF n = name THEN templateString ELSE registry[n]],
          ok |-> TRUE, error |-> "", errorName |-> ""]
    ELSE [registry |-> registry,
          ok |-> FALSE, error |-> "Failed to register template", errorName |-> name]

(***************************************************************************)
(* Prompt builder (src/services/prompt-builder.ts).                        *)
(*                                                                         *)
(* A persona (data of a character card) is a record [name, nickname,       *)
(* description, personality, scenario, system_prompt, first_mes,           *)
(* alternate_greetings, hasBook, character_book]; an absent optional text  *)
(* is the empty text, which the code treats alike (both are falsy).  An    *)
(* optional argument is a sequence: <<>> when not given, <<v>> when given. *)
(***************************************************************************)
\* A selection that takes index i itself for the place of the alternate.
getGreetingFromIndex(card, index) ==
    IF index = <<>> \/ index[1] = 0 THEN card.first_mes
    ELSE IF index[1] >= 0 /\ index[1] < Len(card.alternate_greetings)
         THEN card.alternate_greetings[index[1] + 1]
         ELSE card.first_mes

getGreeting(card, index) ==
    IF index = <<>> \/ index[1] = 0 THEN card.first_mes
    ELSE LET alternateIndex == index[1] - 1
         IN  IF alternateIndex >= 0 /\ alternateIndex < Len(card.alternate_greetings)
             THEN card.alternate_greetings[alternateIndex + 1]
             ELSE card.first_mes

\* The loop over character_book.entries of compileStaticContext: each
\* enabled constant entry is matched alone, with no messages and a count of
\* 0, and its matches are pushed in the order the loop meets them.
RECURSIVE ConstantEntries(_, _)
ConstantEntries(entries, cbsContext) ==
    IF entries = <<>> THEN <<>>
    ELSE LET entry == Head(entries)
             Processed(matches) ==
                 [i \in 1..Len(matches) |->
                     [matches[i] EXCEPT !.processedContent = process(@, cbsContext)]]
         IN  (IF entry.enabled /\ entry.constant
              THEN Processed(findMatches([entries |-> <<entry>>],
                                         [messages |-> <<>>, scanText |-> <<>>,
                                          assistantMessageCount |-> 0]))
              ELSE <<>>) \o ConstantEntries(Tail(entries), cbsContext)

compileStaticContext(data, userName, greetingIndex, rnd) ==
    LET characterName == IF Truthy(data.nickname) THEN data.nickname ELSE data.name
        greeting == getGreeting(data, greetingIndex)
        cbsContext == [charName |-> characterName, userName |-> userName,
                       conversationId |-> <<>>, rnd |-> rnd]
    IN  [characterName |-> characterName,
         characterNickname |-> data.nickname,
         systemPrompt |-> IF Truthy(data.system_prompt)
                          THEN process(data.system_prompt, cbsContext) ELSE <<>>,
         description |-> process(data.description, cbsContext),
         personality |-> IF Truthy(data.personality)
                         THEN process(data.personality, cbsContext) ELSE <<>>,
         scenario |-> IF Truthy(data.scenario)
                      THEN process(data.scenario, cbsContext) ELSE <<>>,
         greeting |-> process(greeting, cbsContext),
         constantLorebookEntries |->
             IF data.hasBook
             THEN ConstantEntries(data.character_book.entries, cbsContext)
             ELSE <<>>]

\* The scan text processDynamicContent hands to the matcher.
DynamicScanText(messages, userPrompt) ==
    LET scanText == Flatten([i \in 1..Len(messages) |-> messages[i].content]) \o userPrompt
        hiddenKeys == extractHiddenKeys(scanText)
    IN  scanText \o Flatten(hiddenKeys)

\* A count of the messages of every role.
CountMessages(messages) == Len(messages)

CountAssistant(messages) ==
    Cardinality({i \in 1..Len(messages) : messages[i].role = "assistant"})

\* A dynamic matching that runs over the whole lorebook.
processDynamicContentAll(messages, userPrompt, lorebook, cbsContext) ==
    IF lorebook = <<>> THEN <<>>
    ELSE LET Processed(matches) ==
                 [i \in 1..Len(matches) |->
                     [matches[i] EXCEPT !.processedContent = process(@, cbsContext)]]
         IN  Processed(findMatches(lorebook[1],
                           [messages |-> messages,
                            scanText |-> DynamicScanText(messages, userPrompt),
                            assistantMessageCount |-> CountAssistant(messages)]))

\* lorebook is <<>> when the caller has no persona or the persona no book.
processDynamicContent(messages, userPrompt, lorebook, cbsContext) ==
    IF lorebook = <<>> THEN <<>>
    ELSE LET IsDynamic(e) == ~e.constant
             nonConstantLorebook == [entries |-> SelectSeq(lorebook[1].entries, IsDynamic)]
             Processed(matches) ==
                 [i \in 1..Len(matches) |->
                     [matches[i] EXCEPT !.processedContent = process(@, cbsContext)]]
         IN  Processed(findMatches(nonConstantLorebook,
                           [messages |-> messages,
                            scanText |-> DynamicScanText(messages, userPrompt),
                            assistantMessageCount |-> CountAssistant(messages)]))

\* The fields of a persona the templates read.
CharacterData(name, description, personality, scenario, system_prompt, first_mes) ==
    [name |-> name, description |-> description, personality |-> personality,
     scenario |-> scenario, system_prompt |-> system_prompt, first_mes |-> first_mes]

\* An options record holds compiledContext and characterCard as optional
\* arguments, messages, userPrompt, userName, templateName ("" when not
\* given), conversationId and rnd.  The result adds to the prompt or error
\* what the call did on the way: the sub-components it called, the scan text
\* and the assistant-message count it gave the matcher (<<>> when it did
\* not call it) and the context it gave the renderer.
\*
\* BuildFrom is buildPrompt past its check of the arguments.
BuildFrom(registry, options) ==
    LET userName == options.userName
        templateName == IF options.templateName = "" THEN "default"
                        ELSE options.templateName
        lorebook == IF options.characterCard # <<>> /\ options.characterCard[1].hasBook
                    THEN <<options.characterCard[1].character_book>> ELSE <<>>
        \* Step 4: the template context, the rendering and what the call did.
        Rendered(templateContext, scanText, assistantMessageCount) ==
            render(registry, templateName, templateContext)
                @@ [calls |-> {"process", "render"}
                                \cup (IF options.compiledContext = <<>>
                                      THEN {"compileStaticContext"} ELSE {})
                                \cup (IF lorebook # <<>> THEN {"findMatches"} ELSE {}),
                    scanText |-> scanText,
                    assistantMessageCount |-> assistantMessageCount,
                    templateContext |-> <<templateContext>>]
        WithEntries(context, allMessages, processedUserPrompt, dynamicLorebookEntries) ==
            LET characterData ==
                    IF options.characterCard # <<>>
                    THEN LET d == options.characterCard[1]
                         IN  CharacterData(d.name, d.description, d.personality,
                                           d.scenario, d.system_prompt, d.first_mes)
                    ELSE CharacterData(context.characterName, context.description,
                                       context.personality, context.scenario,
                                       context.systemPrompt, context.greeting)
            IN  Rendered([character |-> characterData,
                          messages |-> allMessages,
                          userName |-> userName,
                          lorebookEntries |->
                              context.constantLorebookEntries \o dynamicLorebookEntries,
                          systemPrompt |-> context.systemPrompt],
                         IF lorebook # <<>>
                         THEN DynamicScanText(allMessages, processedUserPrompt)
                         ELSE <<>>,
                         IF lorebook # <<>> THEN <<CountAssistant(allMessages)>> ELSE <<>>)
        \* Step 3: the dynamic lorebook entries of the processed conversation.
        WithMessages(context, cbsContext, allMessages, processedUserPrompt) ==
            WithEntries(context, allMessages, processedUserPrompt,
                processDynamicContent(allMessages, processedUserPrompt, lorebook,
                                      cbsContext))
        \* Step 2: the macros of the user prompt and of the history.
        WithPrompt(context, cbsContext, processedUserPrompt) ==
            WithMessages(context, cbsContext,
                Append([i \in 1..Len(options.messages) |->
                           [options.messages[i] EXCEPT !.content = process(@, cbsContext)]],
                       [role |-> "user", content |-> processedUserPrompt]),
                processedUserPrompt)
        WithCBS(context, cbsContext) ==
            WithPrompt(context, cbsContext, process(options.userPrompt, cbsContext))
        \* Step 1: the compiled context, given or compiled now.
        WithContext(context) ==
            WithCBS(context,
                [charName |-> context.characterName, userName |-> userName,
                 conversationId |-> options.conversationId, rnd |-> options.rnd])
    IN  WithContext(IF options.compiledContext # <<>> THEN options.compiledContext[1]
                    ELSE compileStaticContext(options.characterCard[1], userName, <<>>,
                                              options.rnd))

\* buildPrompt without the check of its arguments: a call with neither
\* argument goes on with an empty persona.
buildPromptUnchecked(registry, options) ==
    BuildFrom(registry,
        IF options.compiledContext = <<>> /\ options.characterCard = <<>>
        THEN [options EXCEPT !.characterCard =
                 <<[name |-> <<>>, nickname |-> <<>>, description |-> <<>>,
                    personality |-> <<>>, scenario |-> <<>>, system_prompt |-> <<>>,
                    first_mes |-> <<>>, alternate_greetings |-> <<>>,
                    hasBook |-> FALSE, character_book |-> [entries |-> <<>>]]>>]
        ELSE options)

buildPrompt(registry, options) ==
    IF options.compiledContext = <<>> /\ options.characterCard = <<>>
    THEN Thrown("Either compiledContext or characterCard must be provided", "")
             @@ [calls |-> {}, scanText |-> <<>>, assistantMessageCount |-> <<>>,
                 templateContext |-> <<>>]
    ELSE BuildFrom(registry, options)

(***************************************************************************)
(* The inputs of the model.                                                *)
(***************************************************************************)
Entry(id, keys, content, enabled, constant, hasPriority, priority, order) ==
    [id |-> id, keys |-> keys, content |-> content, enabled |-> enabled,
     constant |-> constant, case_sensitive |-> FALSE, hasPriority |-> hasPriority,
     priority |-> priority, insertion_order |-> order]

\* A keyed entry, two constant entries (one with a priority below 0, one
\* with none), a constant entry that waits for an assistant message and a
\* disabled entry that is constant and carries @@activate.
EntryPool ==
    {Entry("keyed", << <<"dragon">> >>,
           << <<"@@role", "user">>, <<"lore", "{{", "char", "}}">> >>,
           TRUE, FALSE, FALSE, 0, 2),
     Entry("const", << >>,
           << <<"be", "{{", "user", "}}">> >>, TRUE, TRUE, TRUE, -1, 0),
     Entry("const2", << <<"a">> >>,
           << <<"a">> >>, TRUE, TRUE, FALSE, 0, 1),
     Entry("constAfter", << >>,
           << <<"@@activate_only_after", "1">>, <<"note">> >>, TRUE, TRUE, TRUE, 5, 3),
     Entry("off", << <<"dragon">> >>,
           << <<"@@activate">>, <<"b">> >>, FALSE, TRUE, FALSE, 0, 0)}

\* The lorebooks: up to MaxEntries different entries of the pool in any order.
Books ==
    {b \in UNION {[1..n -> EntryPool] : n \in 0..MaxEntries} :
        \A i, j \in DOMAIN b : i # j => b[i] # b[j]}

Persona(nickname, description, personality, scenario, system, first, alternates, book) ==
    [name |-> <<"Aria">>, nickname |-> nickname, description |-> description,
     personality |-> personality, scenario |-> scenario,
     system_prompt |-> system, first_mes |-> first,
     alternate_greetings |-> alternates,
     hasBook |-> book # <<>>,
     character_book |-> IF book # <<>> THEN book[1] ELSE [entries |-> <<>>]]

PlainPersona ==
    Persona(<<>>, <<"helps">>, <<>>, <<>>, <<>>, <<"hi">>, <<>>, <<>>)

MacroPersona ==
    Persona(<<"Ari">>, <<"{{", "char", "}}", "helps", "{{", "user", "}}">>,
            <<"be", "{{", "user", "}}">>, <<"{{", "//", "note", "}}", "a">>,
            <<"be", "{{", "char", "}}">>, <<"hi", "{{", "user", "}}">>,
            << <<"ok", "{{", "char", "}}">> >>, <<>>)

\* A persona whose system prompt is a comment only.
CommentPersona ==
    Persona(<<>>, <<"helps", "{{", "hidden_key:", "dragon", "}}">>, <<>>, <<>>,
            <<"{{", "//", "note", "}}">>, <<"hi">>, <<>>, <<>>)

BookPersona(b) ==
    Persona(<<>>, <<"helps", "{{", "user", "}}">>, <<>>, <<>>, <<>>, <<"hi">>, <<>>,
            <<[entries |-> b]>>)

Personas == {PlainPersona, CommentPersona, MacroPersona}

BookPersonas == {BookPersona(b) : b \in Books}

UserNames == {<<"Sam">>, <<"Ca", "$$", "h">>}

MessagePool ==
    {[role |-> "user", content |-> <<"dragon", "{{", "char", "}}">>],
     [role |-> "assistant", content |-> <<"ok", "{{", "user", "}}">>]}

UserPrompts == {<<"hi">>, <<"a", "{{", "hidden_key:", "dragon", "}}">>}

TemplateNames == {"", "alpaca", "llama", "missing"}

GreetingIndexes == {<<>>, <<-1>>, <<0>>, <<1>>, <<2>>}

RndValues == 0..(RndDenominator - 1)

(***************************************************************************)
(* State: the persona and the user name of a conversation, its stored      *)
(* messages, the static context cached for it (<<>> until compiled), the   *)
(* registry of the template renderer, and the last call with its outcome.  *)
(***************************************************************************)
VARIABLES card, userName, messages, compiled, templates, last

\* The rate limiter of the worker (middleware/rate-limiter.ts): its store
\* of one entry per session, <<>> for a session without one, the clock
\* Date.now() reads, and for every session the window its requests were
\* passed on in: the time of the first of them and their number.
VARIABLES rateLimitStore, now, passedOn

vars == <<card, userName, messages, compiled, templates, last,
          rateLimitStore, now, passedOn>>

SessionIds == {"s1", "s2"}

\* The module-level store is empty when the worker starts.
LimiterIdle ==
    /\ rateLimitStore = [s \in SessionIds |-> <<>>]
    /\ now = 0
    /\ passedOn = [s \in SessionIds |-> [start |-> 0, n |-> 0]]

Init ==
    /\ card \in Personas
    /\ userName \in UserNames
    /\ messages = <<>>
    /\ compiled = <<>>
    /\ templates = initializeDefaultTemplates
    /\ last = [op |-> "none"]
    /\ LimiterIdle

\* The conversation store appends a message (DatabaseClient.createMessage).
createMessage(m) ==
    /\ Len(messages) < MaxHistory
    /\ messages' = Append(messages, m)
    /\ last' = [op |-> "createMessage"]
    /\ UNCHANGED <<card, userName, compiled, templates, rateLimitStore,
                 now, passedOn>>

\* compileStaticContext is called and its result cached by the caller.
CompileStaticContext(greetingIndex, rnd) ==
    /\ compiled' = <<compileStaticContext(card, userName, greetingIndex, rnd)>>
    /\ last' = [op |-> "compileStaticContext", greetingIndex |-> greetingIndex]
    /\ UNCHANGED <<card, userName, messages, templates, rateLimitStore,
                 now, passedOn>>

\* A builder that pushes the user prompt onto the caller's message list.
BuildPromptPushing(withContext, withCard, userPrompt, templateName, rnd) ==
    /\ withContext => compiled # <<>>
    /\ last' = [op |-> "buildPrompt",
                withContext |-> withContext,
                withCard |-> withCard,
                userPrompt |-> userPrompt,
                templateName |-> templateName,
                result |-> buildPrompt(templates,
                    [compiledContext |-> IF withContext THEN compiled ELSE <<>>,
                     characterCard |-> IF withCard THEN <<card>> ELSE <<>>,
                     messages |-> messages,
                     userPrompt |-> userPrompt,
                     userName |-> userName,
                     templateName |-> templateName,
                     conversationId |-> <<"c1">>,
                     rnd |-> rnd])]
    /\ messages' = IF Len(messages) < MaxHistory
                   THEN Append(messages, [role |-> "user", content |-> userPrompt])
                   ELSE messages
    /\ UNCHANGED <<card, userName, compiled, templates, rateLimitStore,
                 now, passedOn>>

\* buildPrompt is called for the next turn with the cached context, the
\* persona, both or neither.
BuildPrompt(withContext, withCard, userPrompt, templateName, rnd) ==
    /\ withContext => compiled # <<>>
    /\ last' = [op |-> "buildPrompt",
                withContext |-> withContext,
                withCard |-> withCard,
                userPrompt |-> userPrompt,
                templateName |-> templateName,
                result |-> buildPrompt(templates,
                    [compiledContext |-> IF withContext THEN compiled ELSE <<>>,
                     characterCard |-> IF withCard THEN <<card>> ELSE <<>>,
                     messages |-> messages,
                     userPrompt |-> userPrompt,
                     userName |-> userName,
                     templateName |-> templateName,
                     conversationId |-> <<"c1">>,
                     rnd |-> rnd])]
    /\ UNCHANGED <<card, userName, messages, compiled, templates, rateLimitStore,
                 now, passedOn>>

Next ==
    \/ \E m \in MessagePool : createMessage(m)
    \/ \E g \in GreetingIndexes, r \in RndValues : CompileStaticContext(g, r)
    \/ \E c, d \in BOOLEAN, p \in UserPrompts, t \in TemplateNames, r \in RndValues :
           BuildPrompt(c, d, p, t, r)

Spec == Init /\ [][Next]_vars

(***************************************************************************)
(* The pipeline on personas with a lorebook, rendered with the default     *)
(* template; the matcher is also called on its own.                        *)
(***************************************************************************)
InitBook ==
    /\ card \in BookPersonas
    /\ userName \in UserNames
    /\ messages = <<>>
    /\ compiled = <<>>
    /\ templates = initializeDefaultTemplates
    /\ last = [op |-> "none"]
    /\ LimiterIdle

\* The matcher is called on the persona's whole lorebook with the stored
\* messages as scan text.
FindMatches(count) ==
    /\ last' = [op |-> "findMatches",
                count |-> count,
                matches |-> findMatches(card.character_book,
                    [messages |-> messages,
                     scanText |-> Flatten([i \in 1..Len(messages) |-> messages[i].content]),
                     assistantMessageCount |-> count])]
    /\ UNCHANGED <<card, userName, messages, compiled, templates, rateLimitStore,
                 now, passedOn>>

NextBook ==
    \/ \E m \in MessagePool : createMessage(m)
    \/ CompileStaticContext(<<>>, 0)
    \/ \E c, d \in BOOLEAN, p \in UserPrompts : BuildPrompt(c, d, p, "", 0)
    \/ \E n \in 0..MaxHistory : FindMatches(n)

SpecBook == InitBook /\ [][NextBook]_vars

(***************************************************************************)
(* A template renderer used on its own: callers register templates under   *)
(* new and existing names and render with them.                            *)
(***************************************************************************)
RegisterNames == {"default", "custom"}

RenderNames == {"default", "custom", "alpaca", "llama", "missing"}

\* A matched entry as the templates read it: its role decorator ("" when
\* it has none) and its processed content.
RenderEntry(role, content) ==
    [decorators |-> [role |-> role], processedContent |-> content]

RenderEntryLists ==
    {<<>>,
     <<RenderEntry("assistant", <<"lore">>), RenderEntry("", <<"b">>)>>,
     <<RenderEntry("user", <<"lore">>), RenderEntry("system", <<"b">>)>>}

\* The contexts render is called with: without and with a system prompt
\* that overrides the persona's, a persona with and without a system
\* prompt of its own, and without and with matched entries.
RenderContexts ==
    {[character |-> CharacterData(<<"Aria">>, <<"helps">>, <<"a">>, <<>>, own, <<"hi">>),
      messages |-> <<[role |-> "user", content |-> <<"hi">>],
                     [role |-> "assistant", content |-> <<"ok">>]>>,
      userName |-> <<"Sam">>,
      lorebookEntries |-> es,
      systemPrompt |-> sp] :
        sp \in {<<>>, <<"note">>}, own \in {<<>>, <<"be">>}, es \in RenderEntryLists}

RegisterTemplate(name, templateString) ==
    LET r == registerTemplate(templates, name, templateString)
    IN  /\ templates' = r.registry
        /\ last' = [op |-> "registerTemplate", name |-> name,
                    templateString |-> templateString,
                    ok |-> r.ok, error |-> r.error, errorName |-> r.errorName]
        /\ UNCHANGED <<card, userName, messages, compiled, rateLimitStore,
                     now, passedOn>>

Render(templateName, context) ==
    /\ last' = [op |-> "render", templateName |-> templateName, context |-> context,
                result |-> render(templates, templateName, context)]
    /\ UNCHANGED <<card, userName, messages, compiled, templates, rateLimitStore,
                 now, passedOn>>

InitRenderer ==
    /\ card = PlainPersona
    /\ userName \in UserNames
    /\ messages = <<>>
    /\ compiled = <<>>
    /\ templates = initializeDefaultTemplates
    /\ last = [op |-> "none"]
    /\ LimiterIdle

NextRenderer ==
    \/ \E n \in RegisterNames, s \in TemplateSources : RegisterTemplate(n, s)
    \/ \E n \in RenderNames, c \in RenderContexts : Render(n, c)

SpecRenderer == InitRenderer /\ [][NextRenderer]_vars

(***************************************************************************)
(* The macro processor used on its own.                                    *)
(***************************************************************************)
Macro(head, body) == <<"{{", head>> \o body \o <<"}}">>

\* The bodies T of the {{reverse:T}} macros: with and without a blank, a
\* single lexeme, the empty text and a text with a lone closing brace.
ReverseBodies ==
    {<<"a", "b">>, <<"hi", " ", "a">>, <<"a">>, <<>>, <<"a", "}", "b">>, <<"$", "a">>}

PickTexts ==
    {Macro("pick:", <<"a", ",", " ", "b", " ", ",", "hi">>),
     <<"ok">> \o Macro("pick:", <<"a", ",", "b">>) \o Macro("pick:", <<"b", ",", "a">>),
     Macro("pick:", <<"a">>)}

\* N = 3, d3, 1, 12, 0 and d0, and rolls whose N is no decimal integer.
RollTexts ==
    {Macro("roll:", <<"3">>), Macro("roll:", <<"d", "3">>), Macro("roll:", <<"1">>),
     Macro("roll:", <<"1", "2">>), Macro("roll:", <<"0">>), Macro("roll:", <<"d", "0">>),
     Macro("roll:", <<>>), Macro("roll:", <<"d">>), Macro("roll:", <<"a">>),
     Macro("roll:", <<"3", " ">>), Macro("roll:", <<"d", "d", "3">>)}

HiddenKeyTexts ==
    {<<"a">> \o Macro("hidden_key:", <<"dragon">>) \o <<"b">>
         \o Macro("hidden_key:", <<"hi", " ", "a">>),
     Macro("hidden_key:", <<"a">>) \o Macro("hidden_key:", <<"a">>),
     <<"a">> \o Macro("hidden_key:", <<>>) \o Macro("hidden_key:", <<"b">>)}

\* Texts free of macro delimiters.
PlainTexts == {<<"hi">>, <<"hi", " ", "Sam", ",", "$&">>, <<>>}

\* Unknown macros and macros with an unmatched delimiter.
LiteralMacroTexts ==
    {Macro("foo", <<>>), <<"{{", "char">>, <<"char", "}}">>, <<"{{", "user", "a">>,
     <<"{{", "reverse:", "a", "b">>, <<"{{", "pick:", "a", ",", "b">>,
     <<"{{", "hidden_key:", "a">>, <<"hi", "}}", "{{">>}

MixedTexts ==
    {Macro("char", <<>>) \o <<"helps">> \o Macro("user", <<>>)
         \o Macro("//", <<"note">>) \o Macro("reverse:", <<"hi">>),
     Macro("user", <<>>),
     Macro("//", <<>>) \o <<"a">>,
     Macro("random:", <<"a", ",", " ", "b">>),
     <<"{{", "pick:">> \o Macro("random:", <<"a", ",", "b">>) \o <<",", "hi", "}}">>,
     <<"{{", "pick:">> \o Macro("user", <<>>) \o <<",", "a", "}}">>}

CBSTexts ==
    PickTexts \cup RollTexts \cup HiddenKeyTexts \cup PlainTexts \cup LiteralMacroTexts
        \cup MixedTexts \cup {Macro("reverse:", b) : b \in ReverseBodies}

\* User names that hold macros and replacement patterns themselves.
MacroUserNames ==
    {Macro("reverse:", <<"a", "b">>), Macro("char", <<>>), Macro("//", <<"note">>),
     Macro("hidden_key:", <<"a">>), <<"Sam", "$&">>}

\* The contexts: with and without a conversation identifier.
CBSContexts ==
    {[charName |-> <<"Ari">>, userName |-> <<"Sam">>, conversationId |-> c, rnd |-> r] :
        c \in {<<>>, <<"c1">>}, r \in RndValues}

MacroUserContexts ==
    {[charName |-> <<"Ari">>, userName |-> u, conversationId |-> <<"c1">>, rnd |-> 0] :
        u \in MacroUserNames}

\* The calls of process: every text in every context, and the texts with a
\* {{user}} macro in the contexts whose user name holds macros.
CBSCalls ==
    (CBSTexts \X CBSContexts)
        \cup ({t \in MixedTexts : Contains(t, Macro("user", <<>>))} \X MacroUserContexts)

Process(text, ctx) ==
    /\ last' = [op |-> "process", text |-> text, context |-> ctx,
                result |-> process(text, ctx),
                results |-> ResultsFrom(text, 1, ctx)]
    /\ UNCHANGED <<card, userName, messages, compiled, templates, rateLimitStore,
                 now, passedOn>>

\* The last result goes back into a {{reverse:...}} macro and is processed.
ProcessReversed(ctx) ==
    /\ last.op = "process"
    /\ \E b \in ReverseBodies : last.text = Macro("reverse:", b)
    /\ last' = [op |-> "processReversed", text |-> Macro("reverse:", last.result),
                context |-> ctx, first |-> last.text,
                result |-> process(Macro("reverse:", last.result), ctx)]
    /\ UNCHANGED <<card, userName, messages, compiled, templates, rateLimitStore,
                 now, passedOn>>

ExtractHiddenKeys(text) ==
    /\ last' = [op |-> "extractHiddenKeys", text |-> text,
                keys |-> extractHiddenKeys(text),
                visible |-> process(text, [charName |-> <<"Ari">>, userName |-> <<"Sam">>,
                                           conversationId |-> <<>>, rnd |-> 0])]
    /\ UNCHANGED <<card, userName, messages, compiled, templates, rateLimitStore,
                 now, passedOn>>

InitCBS ==
    /\ card = PlainPersona
    /\ userName = <<"Sam">>
    /\ messages = <<>>
    /\ compiled = <<>>
    /\ templates = initializeDefaultTemplates
    /\ last = [op |-> "none"]
    /\ LimiterIdle

NextCBS ==
    \/ \E call \in CBSCalls : Process(call[1], call[2])
    \/ \E c \in CBSContexts : ProcessReversed(c)
    \/ \E t \in CBSTexts : ExtractHiddenKeys(t)

SpecCBS == InitCBS /\ [][NextCBS]_vars

(***************************************************************************)
(* The matcher on its own: findMatches is called on small lorebooks whose  *)
(* entries carry the activation decorators, with message lists of up to    *)
(* three messages and assistant-message counts up to MaxCount.             *)
(***************************************************************************)
MaxCount == 6

\* An enabled entry that is not constant and has no priority.
Keyed(id, keys, content) == Entry(id, keys, content, TRUE, FALSE, FALSE, 0, 0)

\* An enabled constant entry.
Constant(id, keys, content) == Entry(id, keys, content, TRUE, TRUE, FALSE, 0, 0)

KeyedEntries ==
    {Keyed("plain", << <<"dragon">> >>, << <<"lore">> >>),
     [Keyed("cased", << <<"Dragon">> >>, << <<"lore">> >>) EXCEPT !.case_sensitive = TRUE],
     Keyed("noKeys", << >>, << <<"lore">> >>),
     Keyed("emptyKey", << <<>> >>, << <<"lore">> >>),
     Keyed("two", << <<>>, <<"elf">> >>, << <<"lore">> >>),
     Keyed("additional", << <<"primary">> >>,
           << <<"@@additional_keys", "elf", "dragon">>, <<"lore">> >>),
     Keyed("exclude", << <<"dragon">> >>,
           << <<"@@exclude_keys", "baby", "young">>, <<"lore">> >>),
     Keyed("depth1", << <<"dragon">> >>, << <<"@@scan_depth", "1">>, <<"lore">> >>),
     Keyed("depth2", << <<"dragon">> >>, << <<"@@scan_depth", "2">>, <<"lore">> >>)}

ForcedEntries ==
    {Keyed("activate", << <<"key">> >>, << <<"@@activate">>, <<"lore">> >>),
     Keyed("activateNoKeys", << >>, << <<"@@activate">>, <<"lore">> >>),
     Keyed("activateExclude", << <<"key">> >>,
           << <<"@@activate">>, <<"@@exclude_keys", "baby">>, <<"lore">> >>),
     Keyed("activateDont", << <<"dragon">> >>,
           << <<"@@activate">>, <<"@@dont_activate">>, <<"lore">> >>),
     Keyed("dont", << <<"dragon">> >>, << <<"@@dont_activate">>, <<"lore">> >>),
     Constant("constantDont", << <<"key">> >>, << <<"@@dont_activate">>, <<"lore">> >>),
     Constant("constantExclude", << <<"key">> >>,
              << <<"@@exclude_keys", "baby">>, <<"lore">> >>)}

EveryEntries ==
    {Constant("every3", << <<"key">> >>, << <<"@@activate_only_every", "3">>, <<"lore">> >>),
     Constant("every2", << <<"key">> >>, << <<"@@activate_only_every", "2">>, <<"lore">> >>),
     Constant("every1", << <<"key">> >>, << <<"@@activate_only_every", "1">>, <<"lore">> >>),
     Keyed("keyedEvery3", << <<"dragon">> >>,
           << <<"@@activate_only_every", "3">>, <<"lore">> >>)}

\* Lorebooks of one entry, and of an entry under @@scan_depth next to one
\* without.
MatcherBooks ==
    {<<e>> : e \in KeyedEntries \cup ForcedEntries \cup EveryEntries}
        \cup {<<a, b>> : a \in {e \in KeyedEntries : e.id \in {"depth1", "depth2"}},
                         b \in {e \in KeyedEntries : e.id \in {"plain", "exclude"}}}

Said(content) == [role |-> "user", content |-> content]

MatcherMessages ==
    {<<>>,
     <<Said(<<"hi">>)>>,
     <<Said(<<"a", "DRAGON", "flies">>)>>,
     <<Said(<<"a", "Dragon", "flies">>)>>,
     <<Said(<<"the", "baby", "dragon">>)>>,
     <<Said(<<"an", "elf">>), Said(<<"baby">>)>>,
     <<Said(<<"old", "dragon">>), Said(<<"hi">>)>>,
     <<Said(<<"old", "dragon">>), Said(<<"hi">>), Said(<<"a">>)>>,
     <<Said(<<"hi">>), Said(<<"a", "dragon">>), Said(<<"a">>)>>}

\* The context of a call: the scan text is the content of the messages.
MatcherContext(ms, count) ==
    [messages |-> ms,
     scanText |-> Flatten([i \in 1..Len(ms) |-> ms[i].content]),
     assistantMessageCount |-> count]

\* The calls: every lorebook on every message list at count 0, and the
\* entries under @@activate_only_every at every count.
MatcherCalls ==
    {<<b, MatcherContext(ms, 0)>> : b \in MatcherBooks, ms \in MatcherMessages}
        \cup {<<<<e>>, MatcherContext(<<Said(<<"a", "dragon">>)>>, n)>> :
                  e \in EveryEntries, n \in 0..MaxCount}

FindMatchesOn(book, context) ==
    /\ last' = [op |-> "findMatchesOn", book |-> book, context |-> context,
                matches |-> findMatches([entries |-> book], context)]
    /\ UNCHANGED <<card, userName, messages, compiled, templates, rateLimitStore,
                 now, passedOn>>

InitMatcher ==
    /\ card = PlainPersona
    /\ userName = <<"Sam">>
    /\ messages = <<>>
    /\ compiled = <<>>
    /\ templates = initializeDefaultTemplates
    /\ last = [op |-> "none"]
    /\ LimiterIdle

NextMatcher == \E call \in MatcherCalls : FindMatchesOn(call[1], call[2])

SpecMatcher == InitMatcher /\ [][NextMatcher]_vars

(***************************************************************************)
(* Rate limiter (src/middleware/rate-limiter.ts).  A request carries the   *)
(* value of its X-Session-ID header, <<>> when it has none; the outcome of *)
(* the middleware is whether it passed the request on to the next handler  *)
(* (otherwise it answered 429) and the store it leaves.                    *)
(***************************************************************************)
RATE_LIMIT_WINDOW_MS == 60000

RATE_LIMIT_MAX_REQUESTS == 10

\* A middleware that lets a session go one request over the maximum.
rateLimiterMiddlewareOneMore(store, header, t) ==
    IF header = <<>> THEN [passed |-> TRUE, store |-> store]
    ELSE LET sessionId == header[1]
             Check(current) ==
                 IF current[sessionId] # <<>>
                        /\ current[sessionId][1].count > RATE_LIMIT_MAX_REQUESTS
                 THEN [passed |-> FALSE, store |-> current]
                 ELSE IF current[sessionId] # <<>>
                 THEN [passed |-> TRUE,
                       store |-> [current EXCEPT ![sessionId][1].count = @ + 1]]
                 ELSE [passed |-> TRUE,
                       store |-> [current EXCEPT ![sessionId] =
                                     <<[count |-> 1,
                                        resetAt |-> t + RATE_LIMIT_WINDOW_MS]>>]]
         IN  Check(IF store[sessionId] # <<>> /\ store[sessionId][1].resetAt < t
                   THEN [store EXCEPT ![sessionId] = <<>>]
                   ELSE store)

\* One run of the middleware at time t: the expired entry of the session is
\* deleted, a session at the maximum is answered 429, any other request is
\* counted and passed on.
rateLimiterMiddleware(store, header, t) ==
    IF header = <<>> THEN [passed |-> TRUE, store |-> store]
    ELSE LET sessionId == header[1]
             Check(current) ==
                 IF current[sessionId] # <<>>
                        /\ current[sessionId][1].count >= RATE_LIMIT_MAX_REQUESTS
                 THEN [passed |-> FALSE, store |-> current]
                 ELSE IF current[sessionId] # <<>>
                 THEN [passed |-> TRUE,
                       store |-> [current EXCEPT ![sessionId][1].count = @ + 1]]
                 ELSE [passed |-> TRUE,
                       store |-> [current EXCEPT ![sessionId] =
                                     <<[count |-> 1,
                                        resetAt |-> t + RATE_LIMIT_WINDOW_MS]>>]]
         IN  Check(IF store[sessionId] # <<>> /\ store[sessionId][1].resetAt < t
                   THEN [store EXCEPT ![sessionId] = <<>>]
                   ELSE store)

Headers == {<<>>} \cup {<<s>> : s \in SessionIds}

\* The times requests arrive at: the start, and around the ends of the
\* windows that start at 0, at 1 and right after the first window.
Times ==
    {0, 1,
     RATE_LIMIT_WINDOW_MS, RATE_LIMIT_WINDOW_MS + 1, RATE_LIMIT_WINDOW_MS + 2,
     2 * RATE_LIMIT_WINDOW_MS + 1, 2 * RATE_LIMIT_WINDOW_MS + 2}

\* The window a passed request of a session falls in: the running one, or
\* a new one when there is none or the running one ended before t.
Window(w, t) ==
    IF w.n = 0 \/ t > w.start + RATE_LIMIT_WINDOW_MS
    THEN [start |-> t, n |-> 1]
    ELSE [w EXCEPT !.n = @ + 1]

\* A request reaches the middleware.
Request(header) ==
    LET Answer(r) ==
            /\ rateLimitStore' = r.store
            /\ last' = [op |-> "request", header |-> header, at |-> now,
                        passed |-> r.passed]
            /\ passedOn' = IF header # <<>> /\ r.passed
                           THEN [passedOn EXCEPT ![header[1]] = Window(@, now)]
                           ELSE passedOn
    IN  /\ Answer(rateLimiterMiddleware(rateLimitStore, header, now))
        /\ UNCHANGED <<card, userName, messages, compiled, templates, now>>

\* Time passes between two requests.
Tick(t) ==
    /\ t > now
    /\ now' = t
    /\ last' = [op |-> "tick"]
    /\ UNCHANGED <<card, userName, messages, compiled, templates, rateLimitStore,
                   passedOn>>

InitLimiter ==
    /\ card = PlainPersona
    /\ userName = <<"Sam">>
    /\ messages = <<>>
    /\ compiled = <<>>
    /\ templates = initializeDefaultTemplates
    /\ last = [op |-> "none"]
    /\ LimiterIdle

NextLimiter ==
    \/ \E h \in Headers : Request(h)
    \/ \E t \in Times : Tick(t)

SpecLimiter == InitLimiter /\ [][NextLimiter]_vars

(***************************************************************************)
(* Properties.                                                             *)
(***************************************************************************)
Ids(ms) == [i \in 1..Len(ms) |-> ms[i].entry.id]

Range(s) == {s[i] : i \in 1..Len(s)}

BuiltPrompt == last.op = "buildPrompt" /\ last.result.ok

\* The macro context of the conversation: the nickname before the name.
CardCBS ==
    [charName |-> IF card.nickname # <<>> THEN card.nickname ELSE card.name,
     userName |-> userName, conversationId |-> <<"c1">>, rnd |-> 0]

\* C1: buildPrompt called with neither compiledContext nor characterCard
\* fails with the invalid-arguments error, has called no sub-component (no
\* macro processing, no matching, no rendering) and returns no prompt.
C1_NeitherArgumentFails ==
    (last.op = "buildPrompt" /\ ~last.withContext /\ ~last.withCard)
        => /\ ~last.result.ok
           /\ last.result.error = "Either compiledContext or characterCard must be provided"
           /\ last.result.calls = {}
           /\ last.result.prompt = <<>>

C1_Witness ==
    /\ last.op = "buildPrompt" /\ ~last.withContext /\ ~last.withCard
    /\ messages # <<>>
    /\ last.userPrompt # <<"hi">>

C3_PersonaTextsExpanded ==
    BuiltPrompt
        => /\ Contains(last.result.prompt, process(card.system_prompt, CardCBS))
           /\ Contains(last.result.prompt, process(card.description, CardCBS))
           /\ Contains(last.result.prompt, process(card.personality, CardCBS))
           /\ Contains(last.result.prompt, process(card.scenario, CardCBS))
           /\ ~Contains(last.result.prompt, <<"{{">>)

\* C4: a {{hidden_key:T}} marker of the user prompt is not in the prompt, T
\* is in the scan text given to the matcher, and an enabled non-constant
\* entry of the supplied persona whose only key is T is in the prompt.
C4_HiddenKeyWidensScan ==
    (BuiltPrompt /\ last.withCard)
        => \A k \in Range(extractHiddenKeys(last.userPrompt)) :
               /\ ~Contains(last.result.prompt, <<"{{", "hidden_key:">> \o k \o <<"}}">>)
               /\ Contains(last.result.scanText, k)
               /\ \A e \in Range(card.character_book.entries) :
                      (e.enabled /\ ~e.constant /\ e.keys = <<k>>)
                          => e.id \in Range(Ids(last.result.templateContext[1].lorebookEntries))

\* C5: a disabled entry is never in the output of findMatches, in
\* constantLorebookEntries or in the built prompt, even when it is constant
\* or carries @@activate.
C5_DisabledNeverAppears ==
    /\ last.op = "findMatches"
           => \A i \in 1..Len(last.matches) : last.matches[i].entry.enabled
    /\ compiled # <<>>
           => \A i \in 1..Len(compiled[1].constantLorebookEntries) :
                  compiled[1].constantLorebookEntries[i].entry.enabled
    /\ BuiltPrompt
           => /\ \A m \in Range(last.result.templateContext[1].lorebookEntries) :
                     m.entry.enabled
              /\ \A e \in Range(card.character_book.entries) :
                     ~e.enabled => ~Contains(last.result.prompt,
                                             parseDecorators(e.content).cleanContent)

C5_Witness ==
    /\ last.op = "findMatches"
    /\ \E e \in Range(card.character_book.entries) :
           ~e.enabled /\ e.constant /\ <<"@@activate">> \in Range(e.content)
    /\ Len(last.matches) = 1
    /\ \E i \in 1..Len(messages) : Contains(messages[i].content, <<"dragon">>)

C7_ConstantOrderIgnoresBookOrder ==
    compiled # <<>>
        => \A b \in Books :
               Range(b) = Range(card.character_book.entries)
                   => Ids(compileStaticContext(BookPersona(b), userName, <<>>, 0)
                              .constantLorebookEntries)
                          = Ids(compiled[1].constantLorebookEntries)

\* C8: in every buildPrompt call on the growing history, an enabled entry
\* with @@activate_only_after N that is constant or has a key in the scan
\* text is in the prompt exactly when the history holds at least N assistant
\* messages.
C8_ActivateOnlyAfter ==
    (BuiltPrompt /\ last.withCard)
        => \A e \in Range(card.character_book.entries) :
               LET d == parseDecorators(e.content).decorators
                   tc == last.result.templateContext[1]
               IN  (/\ e.enabled
                    /\ d.activate_only_after # <<>>
                    /\ e.constant \/ \E i \in 1..Len(e.keys) :
                                         Contains(last.result.scanText, e.keys[i]))
                       => (e.id \in Range(Ids(tc.lorebookEntries))
                               <=> CountAssistant(tc.messages) >= d.activate_only_after[1])

PickOutcomes(text) ==
    IF text = Macro("pick:", <<"a", ",", " ", "b", " ", ",", "hi">>)
    THEN {<<"a">>, <<"b">>, <<"hi">>}
    ELSE IF text = Macro("pick:", <<"a">>) THEN {<<"a">>}
    ELSE {<<"ok", x, y>> : x \in {"a", "b"}, y \in {"a", "b"}}

\* C11: process replaces every {{pick:A,B,...}} by one of its trimmed
\* options; of two calls in a row with the same text and the same
\* conversation identifier the second returns what the first returned,
\* whatever Math.random() yields; and the pick pass gives the same output
\* whenever its input text and the conversation identifier are the same.
C11_PickIsSeeded ==
    [][/\ (last'.op = "process" /\ last'.text \in PickTexts)
              => last'.result \in PickOutcomes(last'.text)
       /\ (/\ last.op = "process" /\ last'.op = "process"
           /\ last.text \in PickTexts /\ last'.text = last.text
           /\ last'.context.conversationId = last.context.conversationId)
              => last'.result = last.result
       /\ (/\ last.op = "process" /\ last'.op = "process"
           /\ last'.results[5] = last.results[5]
           /\ last'.context.conversationId = last.context.conversationId)
              => last'.results[6] = last.results[6]]_vars

C11_Witness ==
    /\ last.op = "process"
    /\ last.text = Macro("pick:", <<"a", ",", " ", "b", " ", ",", "hi">>)
    /\ last.context.conversationId = <<"c1">> /\ last.context.rnd = 1
    /\ last.result = <<"hi">>

\* The N of the rolls of RollTexts whose N is a decimal integer.
RollMax(text) ==
    CASE text \in {Macro("roll:", <<"3">>), Macro("roll:", <<"d", "3">>)} -> 3
      [] text = Macro("roll:", <<"1">>) -> 1
      [] text = Macro("roll:", <<"1", "2">>) -> 12
      [] text \in {Macro("roll:", <<"0">>), Macro("roll:", <<"d", "0">>)} -> 0
      [] OTHER -> -1

DecimalText(r) == IF r < 10 THEN <<Digits[r + 1]>> ELSE <<"1", Digits[r - 9]>>

\* C12: process replaces {{roll:N}} and {{roll:dN}} with N >= 1 by the
\* decimal text of an integer from 1 to N, and leaves the macro as it is
\* when N is 0 or no decimal integer.
C12_RollInRange ==
    (last.op = "process" /\ last.text \in RollTexts)
        => IF RollMax(last.text) >= 1
           THEN \E r \in 1..RollMax(last.text) : last.result = DecimalText(r)
           ELSE last.result = last.text

C12_Witness ==
    /\ last.op = "process"
    /\ last.text = Macro("roll:", <<"1", "2">>)
    /\ last.result = <<"7">>

\* The body T of a text {{reverse:T}}, and the characters of the bodies of
\* ReverseBodies in reverse order.
ReverseBodyOf(text) == SubSeq(text, 3, Len(text) - 1)

Backwards(body) ==
    CASE body = <<"a", "b">> -> <<"b", "a">>
      [] body = <<"hi", " ", "a">> -> <<"a", " ", "ih">>
      [] body = <<"a", "}", "b">> -> <<"b", "}", "a">>
      [] body = <<"$", "a">> -> <<"a", "$">>
      [] OTHER -> body

NoDelimiter(t) == t # <<>> /\ ~Contains(t, <<"{{">>) /\ ~Contains(t, <<"}}">>)

\* C13: for every T that is not empty and holds no macro delimiter,
\* process turns {{reverse:T}} into the characters of T in reverse order,
\* and that output put into {{reverse:...}} and processed again gives T.
C13_ReverseInvolution ==
    /\ (/\ last.op = "process"
        /\ \E b \in ReverseBodies : last.text = Macro("reverse:", b)
        /\ NoDelimiter(ReverseBodyOf(last.text)))
           => last.result = Backwards(ReverseBodyOf(last.text))
    /\ (last.op = "processReversed" /\ NoDelimiter(ReverseBodyOf(last.first)))
           => last.result = ReverseBodyOf(last.first)

\* C14: process gives a text for every input; a text with an unknown macro
\* or with an unmatched delimiter comes back as it is; and a text free of
\* macro delimiters comes back as it is, also when the output is processed
\* once more.
C14_ProcessIsTotal ==
    last.op = "process"
        => /\ DOMAIN last.result = 1..Len(last.result)
           /\ last.text \in LiteralMacroTexts => last.result = last.text
           /\ (~Contains(last.text, <<"{{">>) /\ ~Contains(last.text, <<"}}">>))
                  => /\ last.result = last.text
                     /\ process(last.result, last.context) = last.result

C14_Witness ==
    /\ last.op = "process"
    /\ last.text = <<"{{", "user", "a">>
    /\ last.result = last.text
    /\ last.context.rnd = 1

\* The text t without the markers {{hidden_key:k}} of the keys ks, each
\* taken out at its first place behind the marker before it.
RECURSIVE WithoutMarkers(_, _)
WithoutMarkers(t, ks) ==
    IF ks = <<>> THEN t
    ELSE LET m == Macro("hidden_key:", Head(ks))
             at == {i \in 1..(Len(t) - Len(m) + 1) : SubSeq(t, i, i + Len(m) - 1) = m}
         IN  IF at = {} THEN t
             ELSE LET i == CHOOSE j \in at : \A k \in at : j <= k
                  IN  SubSeq(t, 1, i - 1)
                          \o WithoutMarkers(SubSeq(t, i + Len(m), Len(t)), Tail(ks))

\* The inner texts of the markers of HiddenKeyTexts, in order.
MarkersOf(text) ==
    IF text = <<"a">> \o Macro("hidden_key:", <<"dragon">>) \o <<"b">>
                  \o Macro("hidden_key:", <<"hi", " ", "a">>)
    THEN << <<"dragon">>, <<"hi", " ", "a">> >>
    ELSE IF text = Macro("hidden_key:", <<"a">>) \o Macro("hidden_key:", <<"a">>)
    THEN << <<"a">>, <<"a">> >>
    ELSE IF text \in HiddenKeyTexts THEN << <<"b">> >>
    ELSE <<>>

C16_GreetingByIndex ==
    last.op = "compileStaticContext"
        => LET idx == last.greetingIndex
               n == Len(card.alternate_greetings)
               selected == IF idx # <<>> /\ idx[1] >= 1 /\ idx[1] <= n
                           THEN card.alternate_greetings[idx[1]]
                           ELSE card.first_mes
           IN  compiled[1].greeting =
                   process(selected, [CardCBS EXCEPT !.conversationId = <<>>])

C16_Witness ==
    /\ last.op = "compileStaticContext"
    /\ last.greetingIndex = <<1>>
    /\ card.first_mes = <<"hi", "{{", "user", "}}">>
    /\ compiled[1].greeting = <<"ok", "Ari">>

\* The text with every {{char}} and {{user}} exchanged for the given names,
\* letter for letter.
RECURSIVE WithNames(_, _, _)
WithNames(t, charName, user) ==
    IF t = <<>> THEN <<>>
    ELSE IF Len(t) >= 3 /\ SubSeq(t, 1, 3) = <<"{{", "char", "}}">>
    THEN charName \o WithNames(SubSeq(t, 4, Len(t)), charName, user)
    ELSE IF Len(t) >= 3 /\ SubSeq(t, 1, 3) = <<"{{", "user", "}}">>
    THEN user \o WithNames(SubSeq(t, 4, Len(t)), charName, user)
    ELSE <<Head(t)>> \o WithNames(Tail(t), charName, user)

\* The text holds no macro but {{char}} and {{user}}.
OnlyNameMacros(t) ==
    \A i \in 1..Len(t) :
        t[i] = "{{" => (i + 1 <= Len(t) /\ t[i + 1] \in {"char", "user"})

\* C17: compileStaticContext takes the nickname, or the name when there is
\* no nickname, for the character name, and in the description it stores
\* and in every prompt built from that context {{char}} stands for that name
\* and {{user}} for the given user name.
C17_NamesResolved ==
    compiled # <<>>
        => LET charName == IF card.nickname # <<>> THEN card.nickname ELSE card.name
               description == WithNames(card.description, charName, userName)
           IN  /\ compiled[1].characterName = charName
               /\ OnlyNameMacros(card.description)
                      => /\ compiled[1].description = description
                         /\ (BuiltPrompt /\ last.withContext /\ ~last.withCard)
                                => Contains(last.result.prompt, description)

\* A render call that used one of the built-in templates.
RenderedBuiltIn ==
    /\ last.op = "render" /\ last.result.ok
    /\ templates[last.templateName] \in {"chatml", "alpaca", "llama"}

\* The block a built-in template gives to a text of a role: the block of
\* a message of that role, and the block of the persona's texts for system.
RoleBlock(source, role, content) ==
    CASE source = "chatml" ->
             (IF role = "assistant" THEN <<"<|im_start|>assistant\n">>
              ELSE IF role = "user" THEN <<"<|im_start|>user\n">>
              ELSE <<"<|im_start|>system\n">>) \o content \o <<"<|im_end|>\n">>
      [] source = "alpaca" ->
             (IF role = "assistant" THEN <<"### Response:\n">>
              ELSE IF role = "user" THEN <<"### Instruction:\n">>
              ELSE <<>>) \o content \o <<"\n\n">>
      [] source = "llama" ->
             IF role = "assistant" THEN content \o <<" </s>\n">>
             ELSE IF role = "user" THEN <<"[INST] ">> \o content \o <<" [/INST]\n">>
             ELSE <<"[INST] <<SYS>>\n">> \o content \o <<"\n<</SYS>>\n\n">>

\* C18: in each built-in template the content of every matched entry is in
\* a block tagged with the role of its decorator (assistant, system or
\* user), and in a system block when it has no role decorator.
C18_EntriesRoleTagged ==
    RenderedBuiltIn
        => \A i \in 1..Len(last.context.lorebookEntries) :
               LET e == last.context.lorebookEntries[i]
               IN  Contains(last.result.prompt,
                            RoleBlock(templates[last.templateName], e.decorators.role,
                                      e.processedContent))

\* The first position at or after from where piece occurs in text, and 0
\* when there is none.
FirstAt(text, piece, from) ==
    LET at == {i \in from..(Len(text) - Len(piece) + 1) :
                   SubSeq(text, i, i + Len(piece) - 1) = piece}
    IN  IF at = {} THEN 0 ELSE CHOOSE i \in at : \A j \in at : i <= j

\* The pieces occur in text one after the other, an empty piece nowhere.
RECURSIVE InOrder(_, _, _)
InOrder(text, pieces, from) ==
    IF pieces = <<>> THEN TRUE
    ELSE IF Head(pieces) = <<>> THEN InOrder(text, Tail(pieces), from)
    ELSE LET Then(i) == i # 0 /\ InOrder(text, Tail(pieces), i + Len(Head(pieces)))
         IN  Then(FirstAt(text, Head(pieces), from))

Labelled(label, text) == IF text = <<>> THEN <<>> ELSE label \o text

\* What a prompt holds for a context: the system prompt in force, the
\* persona's texts, the entries and the messages in their role blocks.
LayoutPieces(source, ctx) ==
    <<IF ctx.systemPrompt # <<>> THEN ctx.systemPrompt ELSE ctx.character.system_prompt,
      ctx.character.description,
      Labelled(<<"Personality: ">>, ctx.character.personality),
      Labelled(<<"Scenario: ">>, ctx.character.scenario)>>
    \o [i \in 1..Len(ctx.lorebookEntries) |-> ctx.lorebookEntries[i].processedContent]
    \o [i \in 1..Len(ctx.messages) |->
            RoleBlock(source, ctx.messages[i].role, ctx.messages[i].content)]

\* The lexeme that leaves the turn to the assistant in each format.
OpenTurn(source) ==
    CASE source = "chatml" -> "<|im_start|>assistant\n"
      [] source = "alpaca" -> "### Response:\n"
      [] source = "llama" -> " [/INST]\n"

LaidOutInOrder ==
    RenderedBuiltIn
        => /\ InOrder(last.result.prompt,
                      LayoutPieces(templates[last.templateName], last.context), 1)
           /\ last.context.character.scenario = <<>>
                  => ~Contains(last.result.prompt, <<"Scenario: ">>)

EndsWithOpenTurn ==
    RenderedBuiltIn
        => /\ last.result.prompt # <<>>
           /\ last.result.prompt[Len(last.result.prompt)]
                  = OpenTurn(templates[last.templateName])

\* C19: in each built-in template the prompt holds, in this order, the
\* system prompt, the description, the personality and the scenario (each
\* only when it is not empty), the matched entries in list order and the
\* messages in their order, each in the block of its role, and it ends
\* with an open turn for the assistant.
C19_LayoutOrder == LaidOutInOrder /\ EndsWithOpenTurn

\* C20: process is the composition of eight passes over the whole text in
\* the order hidden-key removal, comment removal, {{char}}, {{user}}, random,
\* pick, roll, reverse: each pass works on the result of the pass before it,
\* so a user name that holds {{reverse:ab}} is expanded to "ba", and a user
\* name that holds {{char}}, a comment or a hidden key stays as it is.
C20_PassesInOrder ==
    last.op = "process"
        => /\ Len(last.results) = 8
           /\ last.result = last.results[8]
           /\ \A k \in 1..8 :
                  last.results[k]
                      = ReplaceAll(IF k = 1 THEN last.text ELSE last.results[k - 1],
                                   1, Passes[k], last.context)
           /\ last.text = Macro("user", <<>>)
                  => /\ last.context.userName = Macro("reverse:", <<"a", "b">>)
                         => last.result = <<"b", "a">>
                     /\ last.context.userName
                                \in {Macro("char", <<>>), Macro("//", <<"note">>),
                                     Macro("hidden_key:", <<"a">>)}
                         => last.result = last.context.userName

C20_Witness ==
    /\ last.op = "process"
    /\ last.text = Macro("user", <<>>)
    /\ last.context.userName = Macro("reverse:", <<"a", "b">>)
    /\ last.results[3] = last.text
    /\ last.results[4] = last.context.userName
    /\ last.result = <<"b", "a">>

\* The entries of the last matcher call that are in its result.
InMatches(e) == \E i \in 1..Len(last.matches) : last.matches[i].entry = e

\* A value of the key list ks occurs in text (for a case-insensitive entry
\* in any case).
AnyOccurs(ks, text, caseSensitive) ==
    \E i \in 1..Len(ks) :
        /\ ks[i] # <<>>
        /\ Contains(IF caseSensitive THEN text ELSE Lower(text),
                    IF caseSensitive THEN ks[i] ELSE Lower(ks[i]))

\* C21: of an enabled entry, @@dont_activate keeps it out even when it is
\* constant or carries @@activate; an @@exclude_keys value in the scan text
\* keeps it out even when it carries @@activate or a key matches; and
\* @@activate brings it in although no key matches.
C21_ActivationPrecedence ==
    last.op = "findMatchesOn"
        => \A i \in 1..Len(last.book) :
               LET e == last.book[i]
                   d == parseDecorators(e.content).decorators
                   vetoed == AnyOccurs(d.exclude_keys, last.context.scanText,
                                       e.case_sensitive)
               IN  (e.enabled /\ d.scan_depth = <<>>)
                       => /\ d.dont_activate => ~InMatches(e)
                          /\ vetoed => ~InMatches(e)
                          /\ (d.activate /\ ~d.dont_activate /\ ~vetoed
                                 /\ d.activate_only_after = <<>>
                                 /\ d.activate_only_every = <<>>)
                                 => InMatches(e)

C21_Witness ==
    /\ last.op = "findMatchesOn"
    /\ last.book[1].id = "activate"
    /\ last.context.scanText = <<"hi">>
    /\ Len(last.matches) = 1

\* An entry that nothing but @@activate_only_every can keep out of the
\* result of the last matcher call.
OtherwiseActive(e, d) ==
    /\ e.enabled /\ ~d.dont_activate /\ d.activate_only_after = <<>>
    /\ d.scan_depth = <<>>
    /\ e.constant \/ d.activate
           \/ AnyOccurs(e.keys \o d.additional_keys, last.context.scanText,
                        e.case_sensitive)
    /\ ~AnyOccurs(d.exclude_keys, last.context.scanText, e.case_sensitive)

\* C22: an otherwise active entry under @@activate_only_every N is returned
\* exactly when the assistant-message count is a positive multiple of N or
\* is N itself; with N = 3 it is returned at counts 3 and 6 and not at
\* counts 0 and 4.
C22_ActivateOnlyEvery ==
    last.op = "findMatchesOn"
        => \A i \in 1..Len(last.book) :
               LET e == last.book[i]
                   d == parseDecorators(e.content).decorators
                   count == last.context.assistantMessageCount
               IN  (OtherwiseActive(e, d) /\ d.activate_only_every # <<>>
                        /\ d.activate_only_every[1] > 0)
                       => LET n == d.activate_only_every[1]
                          IN  /\ InMatches(e) <=> ((count > 0 /\ count % n = 0) \/ count = n)
                              /\ (n = 3 /\ count \in {3, 6}) => InMatches(e)
                              /\ (n = 3 /\ count \in {0, 4}) => ~InMatches(e)

C22_Witness ==
    /\ last.op = "findMatchesOn"
    /\ last.book[1].id = "every3"
    /\ last.context.assistantMessageCount = 6
    /\ Len(last.matches) = 1
    /\ last.matches[1].decorators.activate_only_every = <<3>>

\* The content of the n most recent messages of ms.
RECURSIVE Recent(_, _)
Recent(ms, n) ==
    IF n = 0 \/ ms = <<>> THEN <<>>
    ELSE Recent(SubSeq(ms, 1, Len(ms) - 1), n - 1) \o ms[Len(ms)].content

\* An enabled entry that is not constant and has no decorator but
\* @@scan_depth, @@additional_keys and @@exclude_keys.
PlainlyKeyed(e, d) ==
    /\ e.enabled /\ ~e.constant
    /\ ~d.activate /\ ~d.dont_activate
    /\ d.activate_only_after = <<>> /\ d.activate_only_every = <<>>

\* C23: an entry under @@scan_depth N is matched against the content of
\* the N most recent messages only, so a key that occurs only in older
\* messages does not bring it in, and the other entries of the same call
\* are matched against the whole scan text.
C23_ScanDepth ==
    last.op = "findMatchesOn"
        => \A i \in 1..Len(last.book) :
               LET e == last.book[i]
                   d == parseDecorators(e.content).decorators
               IN  (PlainlyKeyed(e, d) /\ d.exclude_keys = <<>>)
                       => InMatches(e)
                              <=> AnyOccurs(e.keys \o d.additional_keys,
                                            IF d.scan_depth = <<>> THEN last.context.scanText
                                            ELSE Recent(last.context.messages, d.scan_depth[1]),
                                            e.case_sensitive)

C23_Witness ==
    /\ last.op = "findMatchesOn"
    /\ Len(last.book) = 2
    /\ last.book[1].id = "depth1" /\ last.book[2].id = "plain"
    /\ last.context.messages = <<Said(<<"old", "dragon">>), Said(<<"hi">>)>>
    /\ Ids(last.matches) = <<"plain">>

\* The text the last matcher call scans for an entry.
ScanTextOf(d) ==
    IF d.scan_depth = <<>> THEN last.context.scanText
    ELSE Recent(last.context.messages, d.scan_depth[1])

\* C24: an enabled entry that is not constant and carries no activation
\* decorator is returned exactly when a non-empty key among its keys and
\* its @@additional_keys values occurs in its scan text (in any case unless
\* it is case-sensitive) and no @@exclude_keys value occurs in it; an entry
\* with no key or only empty keys is never returned.
C24_KeyMatching ==
    last.op = "findMatchesOn"
        => \A i \in 1..Len(last.book) :
               LET e == last.book[i]
                   d == parseDecorators(e.content).decorators
                   ks == e.keys \o d.additional_keys
               IN  PlainlyKeyed(e, d)
                       => /\ InMatches(e)
                                 <=> /\ AnyOccurs(ks, ScanTextOf(d), e.case_sensitive)
                                     /\ ~AnyOccurs(d.exclude_keys, ScanTextOf(d),
                                                   e.case_sensitive)
                          /\ (\A k \in 1..Len(ks) : ks[k] = <<>>) => ~InMatches(e)

C24_Witness ==
    /\ last.op = "findMatchesOn"
    /\ last.book[1].id = "additional"
    /\ last.context.scanText = <<"a", "DRAGON", "flies">>
    /\ Ids(last.matches) = <<"additional">>

\* The entries the last buildPrompt call handed to the renderer.
HandedEntries == last.result.templateContext[1].lorebookEntries

\* The constant entries of the static context the last call worked with.
StaticEntries ==
    IF last.withContext THEN compiled[1].constantLorebookEntries
    ELSE compileStaticContext(card, userName, <<>>, 0).constantLorebookEntries

NotConstant(e) == ~e.constant

\* C25: the entries handed to the renderer are the constant entries of
\* the static context in their stored order, followed by what the matcher
\* returns in this call for the persona's entries that are not constant, in
\* the matcher's order; no entry is in the list twice.
C25_StaticThenDynamic ==
    BuiltPrompt
        => LET n == Len(StaticEntries)
               dynamic == SubSeq(HandedEntries, n + 1, Len(HandedEntries))
               tc == last.result.templateContext[1]
           IN  /\ Len(HandedEntries) >= n
               /\ SubSeq(HandedEntries, 1, n) = StaticEntries
               /\ \A i \in 1..Len(dynamic) : ~dynamic[i].entry.constant
               /\ ~last.withCard => dynamic = <<>>
               /\ last.withCard
                      => Ids(dynamic)
                             = Ids(findMatches(
                                   [entries |-> SelectSeq(card.character_book.entries,
                                                          NotConstant)],
                                   [messages |-> tc.messages,
                                    scanText |-> last.result.scanText,
                                    assistantMessageCount |-> CountAssistant(tc.messages)]))
               /\ \A i, j \in 1..Len(HandedEntries) :
                      i # j => HandedEntries[i].entry # HandedEntries[j].entry

C25_Witness ==
    /\ BuiltPrompt
    /\ last.withCard
    /\ Len(StaticEntries) >= 1
    /\ Len(HandedEntries) > Len(StaticEntries)
    /\ HandedEntries[Len(HandedEntries)].entry.id = "keyed"

\* C26: for a history of n messages buildPrompt renders n + 1 messages:
\* the history in its order, every role unchanged and every content
\* macro-expanded, then one user message with the macro-expanded user
\* prompt; the assistant-message count given to the matcher is the number
\* of assistant messages of the history.
C26_MessagesPlusPrompt ==
    BuiltPrompt
        => LET rendered == last.result.templateContext[1].messages
               n == Len(messages)
           IN  /\ Len(rendered) = n + 1
               /\ \A i \in 1..n :
                      /\ rendered[i].role = messages[i].role
                      /\ rendered[i].content = process(messages[i].content, CardCBS)
               /\ rendered[n + 1]
                      = [role |-> "user", content |-> process(last.userPrompt, CardCBS)]
               /\ (last.withCard /\ card.hasBook)
                      => last.result.assistantMessageCount
                             = <<Cardinality({i \in 1..n : messages[i].role = "assistant"})>>

C26_Witness ==
    /\ BuiltPrompt
    /\ last.withCard /\ card.hasBook
    /\ Len(messages) = 2
    /\ messages[1].role = "assistant" /\ messages[2].role = "user"
    /\ last.result.assistantMessageCount = <<1>>
    /\ last.userPrompt # <<"hi">>
    /\ Len(last.result.templateContext[1].messages) = 3

\* C27: a buildPrompt call with the cached static context and no persona
\* and a call with the persona and no context, for the same history, user
\* prompt and template, return the same prompt.
C27_CacheEquivalence ==
    [][(/\ last.op = "buildPrompt" /\ last'.op = "buildPrompt"
        /\ last.withContext /\ ~last.withCard
        /\ ~last'.withContext /\ last'.withCard
        /\ last.userPrompt = last'.userPrompt
        /\ last.templateName = last'.templateName
        /\ last.result.ok)
           => /\ last'.result.ok
              /\ last'.result.prompt = last.result.prompt]_vars

\* What a built-in template opens a system-prompt block with, and what it
\* opens the block of the description with.
SystemOpening(source) ==
    CASE source = "chatml" -> <<"<|im_start|>system\n">>
      [] source = "alpaca" -> <<>>
      [] source = "llama" -> <<"<s>[INST] <<SYS>>\n">>

DescriptionOpening(source) ==
    CASE source = "chatml" -> <<"<|im_start|>system\n">>
      [] source = "alpaca" -> <<>>
      [] source = "llama" -> <<"[INST] <<SYS>>\n">>

StartsWith(text, piece) ==
    Len(text) >= Len(piece) /\ SubSeq(text, 1, Len(piece)) = piece

\* C28: render emits the override system prompt when one is given, the
\* persona's system prompt otherwise, and with neither the built-in
\* templates emit no system-prompt block: the prompt starts with the
\* description.
C28_SystemPromptChoice ==
    RenderedBuiltIn
        => LET source == templates[last.templateName]
               override == last.context.systemPrompt
               own == last.context.character.system_prompt
               prompt == last.result.prompt
           IN  /\ override # <<>>
                      => /\ StartsWith(prompt, SystemOpening(source) \o override)
                         /\ ~Contains(prompt, <<"be">>)
               /\ (override = <<>> /\ own # <<>>)
                      => StartsWith(prompt, SystemOpening(source) \o own)
               /\ (override = <<>> /\ own = <<>>)
                      => /\ StartsWith(prompt, DescriptionOpening(source)
                                                   \o last.context.character.description)
                         /\ ~Contains(prompt, <<"<s>[INST] <<SYS>>\n">>)

C28_Witness ==
    /\ RenderedBuiltIn
    /\ last.context.systemPrompt = <<"note">>
    /\ last.context.character.system_prompt = <<"be">>
    /\ Contains(last.result.prompt, <<"note">>)
    /\ ~Contains(last.result.prompt, <<"be">>)

\* The arguments of the buildPrompt call that l records, for a conversation
\* with a cached context, a persona, a history and a user name.
OptionsOf(l, context, persona, history, user) ==
    [compiledContext |-> IF l.withContext THEN context ELSE <<>>,
     characterCard |-> IF l.withCard THEN <<persona>> ELSE <<>>,
     messages |-> history,
     userPrompt |-> l.userPrompt,
     userName |-> user,
     templateName |-> l.templateName,
     conversationId |-> <<"c1">>,
     rnd |-> 0]

C30_RateLimit ==
    [][last'.op = "request"
          => /\ \A s \in SessionIds :
                    /\ passedOn'[s].n <= RATE_LIMIT_MAX_REQUESTS
                    /\ rateLimitStore'[s] # <<>>
                           => rateLimitStore'[s][1]
                                  = [count |-> passedOn'[s].n,
                                     resetAt |-> passedOn'[s].start + RATE_LIMIT_WINDOW_MS]
             /\ last'.header = <<>>
                    => last'.passed /\ rateLimitStore' = rateLimitStore
             /\ last'.header # <<>>
                    => LET s == last'.header[1]
                           e == rateLimitStore[s]
                           running == e # <<>> /\ now <= e[1].resetAt
                       IN  /\ last'.passed
                                  <=> ~(running /\ e[1].count >= RATE_LIMIT_MAX_REQUESTS)
                           /\ ~last'.passed => rateLimitStore' = rateLimitStore
                           /\ (last'.passed /\ running)
                                  => rateLimitStore'[s]
                                         = <<[e[1] EXCEPT !.count = @ + 1]>>
                           /\ (last'.passed /\ ~running)
                                  => rateLimitStore'[s]
                                         = <<[count |-> 1,
                                              resetAt |-> now + RATE_LIMIT_WINDOW_MS]>>
                           /\ \A o \in SessionIds \ {s} :
                                  rateLimitStore'[o] = rateLimitStore[o]]_vars

C30_Witness ==
    /\ last.op = "request"
    /\ last.header = <<"s1">>
    /\ ~last.passed
    /\ last.at = RATE_LIMIT_WINDOW_MS
    /\ rateLimitStore["s1"] = <<[count |-> RATE_LIMIT_MAX_REQUESTS,
                                 resetAt |-> RATE_LIMIT_WINDOW_MS]>>
    /\ passedOn["s1"] = [start |-> 0, n |-> RATE_LIMIT_MAX_REQUESTS]
====
